---- MODULE Spec2Model ----
(***************************************************************************)
(* TrainerController (src/src/main/trainerController.ts) as a state        *)
(* machine.                                                                *)
(*                                                                         *)
(* The controller runs on a single-threaded event loop.  An async method   *)
(* runs without interruption up to an await of a radio primitive (stop     *)
(* scanning, connect, discovery, subscribe, write, disconnect, or the wait *)
(* for an advertisement); there it is suspended until the radio adapter    *)
(* completes the primitive.  Every action below is one turn of the event   *)
(* loop: the call of a public method, the completion of one radio          *)
(* primitive, a radio event (advertisement, disconnect) or a timer.  The   *)
(* turn runs every continuation it resumes up to its next suspension.      *)
(*                                                                         *)
(* A suspended method is a task: the label it waits at (pc), the labels    *)
(* its callers continue at (stack) and its locals.                         *)
(*                                                                         *)
(* Numbers of watts are fixed-point with one binary digit after the point  *)
(* (unit: half a watt), so that Math.round has something to round.         *)
(* An optional value is a sequence: <<>> is undefined, <<v>> is v.         *)
(***************************************************************************)
EXTENDS Integers, Sequences, FiniteSets, TLC

None == "none"

\* The peripherals there are: two trainers, a heart-rate monitor and a device
\* that advertises neither service.
Trainers == {"p1", "p2"}
Peripherals == Trainers \cup {"h1", "u1"}

FTMS_SERVICE_UUID == "1826"
HEART_RATE_SERVICE_UUID == "180d"
DEVICE_STALE_MS == 15000

\* advertisement.serviceUuids of a peripheral.
serviceUuids(p) ==
  IF p \in Trainers THEN {FTMS_SERVICE_UUID}
  ELSE IF p = "h1" THEN {HEART_RATE_SERVICE_UUID}
  ELSE {}

\* advertisement.localName of a peripheral, character by character (<<>>:
\* the peripheral advertises no name).
localName(p) ==
  CASE p = "p1" -> <<"T", "r", "a", "i", "n", "e", "r", " ", "1">>
    [] p = "p2" -> <<"T", "r", "a", "i", "n", "e", "r", " ", "2">>
    [] p = "h1" -> <<"H", "e", "a", "r", "t", " ", "1">>
    [] OTHER -> <<>>

\* The name filters a caller of connect passes as options.deviceName (<<>>:
\* undefined or the empty string, which !deviceName treats alike).
NameFilters == {<<>>, <<"R", "A", "I", "N">>, <<"r", " ", "2">>, <<"b", "i", "k", "e">>}

\* Tasks there can be at a time.
MaxTasks == 2

\* Calls the caller makes in the specification of the scan of connect.
MaxScanCalls == 2

\* Calls the callers make when they overlap their calls.
MaxCalls == 2

\* Calls the callers make in the specification of the adapter.
MaxAdapterCalls == 3

\* Calls the caller makes in the specification of the registry.
MaxRegistryCalls == 3

\* Calls the caller makes in the specification of the two bindings.
MaxHeartRateCalls == 5

\* Bytes after the flags in the indoor-bike-data notifications generated:
\* the widths of all thirteen optional fields.
MaxPayload == 28

\* The largest target, in watts, a payload is built for.
MaxWatts == 2500

\* Disconnect listeners counted per peripheral (the count saturates).
MaxListeners == 2

\* Clock ticks that the model lets pass while a timer is armed.
MaxTime == 2

\* Milliseconds in a clock tick.
TickMs == 500

\* Milliseconds in a clock tick of a specification that follows the age of
\* the registry entries.
StaleTickMs == 7500

\* Arguments the callers pass (watts and deltas in half watts).
TargetInputs == {-10, 201, 6000}
NudgeInputs == {-4799, 6000}
\* startSession: <<targetWatts, durationSeconds>>
StartInputs == {<<-10, <<>> >>, <<201, <<1>> >>, <<6000, <<0>> >>}

FTMS_FLAG_MORE_DATA == 1
FTMS_FLAG_AVG_SPEED_PRESENT == 2
FTMS_FLAG_INST_CADENCE_PRESENT == 4
FTMS_FLAG_AVG_CADENCE_PRESENT == 8
FTMS_FLAG_TOTAL_DISTANCE_PRESENT == 16
FTMS_FLAG_RESISTANCE_LEVEL_PRESENT == 32
FTMS_FLAG_INST_POWER_PRESENT == 64
FTMS_FLAG_AVG_POWER_PRESENT == 128
FTMS_FLAG_EXPENDED_ENERGY_PRESENT == 256
FTMS_FLAG_HEART_RATE_PRESENT == 512
FTMS_FLAG_MET_EQUIPMENT_PRESENT == 1024
FTMS_FLAG_ELAPSED_TIME_PRESENT == 2048
FTMS_FLAG_REMAINING_TIME_PRESENT == 4096

FTMS_REQUEST_CONTROL == 0
FTMS_RESET == 1
FTMS_SET_TARGET_POWER == 5
FTMS_START_RESUME == 7
FTMS_STOP_PAUSE == 8

VARIABLES
  peripheral,                  \* this.peripheral (None: undefined)
  controlPointCharacteristic,  \* peripheral owning the handle, or None
  indoorBikeCharacteristic,
  statusCharacteristic,
  isControlling,
  isRunning,
  isPaused,
  sessionTimer,                \* TRUE: the field holds a timeout handle
  timeouts,                    \* due times of the timeouts armed in the runtime
  sessionTimerStartedAt,       \* optional number
  sessionTimerRemainingMs,     \* optional number
  currentTargetWatts,
  connectedDeviceLabel,
  connectedDeviceId,
  discoveredPeripherals,       \* keys of the map
  discoveredDevices,           \* id -> optional lastSeen (the rest of a device
                               \* record is fixed by its advertisement)
  heartRatePeripheral,
  heartRateCharacteristic,
  connectedHeartRateId,
  discovering,
  adapterState,                \* noble._state
  perState,                    \* radio link of each peripheral
  listeners,                   \* once('disconnect') handlers on each peripheral
  heartRateListeners,          \* those bindHeartRatePeripheral registered
  now,                         \* Date.now(), in milliseconds
  tasks,                       \* the suspended methods
  events,                      \* events emitted in the last turn
  wrote,                       \* characteristic writes issued in the last turn
  done,                        \* methods settled in the last turn
  inRange,                     \* the peripherals in radio range
  callers,                     \* calls the callers keep outstanding at a time
  faulty,                      \* TRUE: the radio primitives may reject
  aging,                       \* TRUE: the age of registry entries is followed
  call,                        \* a codec function (fn) and its argument (arg)
  outcome,                     \* <<>>, or what the codec function did
  budget                       \* calls the callers still make (-1: any number)

vars == << peripheral, controlPointCharacteristic, indoorBikeCharacteristic,
           statusCharacteristic, isControlling, isRunning, isPaused,
           sessionTimer, timeouts, sessionTimerStartedAt, sessionTimerRemainingMs,
           currentTargetWatts, connectedDeviceLabel, connectedDeviceId,
           discoveredPeripherals, discoveredDevices, heartRatePeripheral,
           heartRateCharacteristic, connectedHeartRateId, discovering,
           adapterState, perState, listeners, heartRateListeners, now, tasks, events, wrote, done, inRange,
           callers, faulty, aging, call, outcome, budget >>

TaskIds == 1..MaxTasks

Idle ==
  [op |-> None, pc |-> None, stack |-> <<>>, per |-> None, want |-> None,
   kind |-> None, name |-> <<>>,
   watts |-> 0, delta |-> 0, dur |-> <<>>, buf |-> <<>>, log |-> <<>>,
   ret |-> <<>>]

\* The clock is read only relative to sessionTimerStartedAt and to the due
\* times of the armed timeouts: while there is neither the clock is held at
\* its origin.
Origin == 1000

\* The state as one record, threaded through the code of a turn.
State ==
  [peripheral |-> peripheral,
   controlPointCharacteristic |-> controlPointCharacteristic,
   indoorBikeCharacteristic |-> indoorBikeCharacteristic,
   statusCharacteristic |-> statusCharacteristic,
   isControlling |-> isControlling,
   isRunning |-> isRunning,
   isPaused |-> isPaused,
   sessionTimer |-> sessionTimer,
   timeouts |-> timeouts,
   sessionTimerStartedAt |-> sessionTimerStartedAt,
   sessionTimerRemainingMs |-> sessionTimerRemainingMs,
   currentTargetWatts |-> currentTargetWatts,
   connectedDeviceLabel |-> connectedDeviceLabel,
   connectedDeviceId |-> connectedDeviceId,
   discoveredPeripherals |-> discoveredPeripherals,
   discoveredDevices |-> discoveredDevices,
   heartRatePeripheral |-> heartRatePeripheral,
   heartRateCharacteristic |-> heartRateCharacteristic,
   connectedHeartRateId |-> connectedHeartRateId,
   discovering |-> discovering,
   adapterState |-> adapterState,
   perState |-> perState,
   listeners |-> listeners,
   heartRateListeners |-> heartRateListeners,
   now |-> now,
   tasks |-> tasks,
   events |-> <<>>,
   wrote |-> <<>>,
   done |-> <<>>,
   budget |-> budget]

\* The tasks in the order they were started, in the first slots.
Compact(t) ==
  LET live == SelectSeq(t, LAMBDA x : x.op # None)
  IN [i \in TaskIds |-> IF i <= Len(live) THEN live[i] ELSE Idle]

Max(a, b) == IF a >= b THEN a ELSE b
Min(a, b) == IF a <= b THEN a ELSE b

\* The timestamp t once the clock is put back by delta; ages beyond the
\* staleness window are not told apart.
Rebased(t, delta) == Max(t - delta, Origin - DEVICE_STALE_MS - 1)

\* The events ev with the timestamps of their device records put back by
\* delta.
RebasedEvents(ev, delta) ==
  [k \in DOMAIN ev |->
     IF ev[k].type # "devices" THEN ev[k]
     ELSE [ev[k] EXCEPT !.devices =
             [j \in DOMAIN @ |-> [@[j] EXCEPT !.lastSeen = Rebased(@, delta)]]]]

\* A turn ends in state s.  The clock goes back to its origin when no timer
\* is armed, and the timestamps of the registry with it; a specification
\* that does not follow the age of the registry entries (aging is FALSE)
\* keeps those timestamps at the clock, so that no entry goes stale.
Commit(s) ==
  LET held == s.sessionTimerStartedAt = <<>> /\ s.timeouts = <<>>
      delta == IF held THEN s.now - Origin ELSE 0
  IN
  /\ discoveredDevices' =
       [id \in Peripherals |->
          IF s.discoveredDevices[id] = <<>> THEN <<>>
          ELSE IF aging THEN <<Rebased(s.discoveredDevices[id][1], delta)>>
          ELSE <<s.now - delta>>]
  /\ heartRatePeripheral' = s.heartRatePeripheral
  /\ heartRateCharacteristic' = s.heartRateCharacteristic
  /\ connectedHeartRateId' = s.connectedHeartRateId
  /\ peripheral' = s.peripheral
  /\ controlPointCharacteristic' = s.controlPointCharacteristic
  /\ indoorBikeCharacteristic' = s.indoorBikeCharacteristic
  /\ statusCharacteristic' = s.statusCharacteristic
  /\ isControlling' = s.isControlling
  /\ isRunning' = s.isRunning
  /\ isPaused' = s.isPaused
  /\ sessionTimer' = s.sessionTimer
  /\ timeouts' = s.timeouts
  /\ sessionTimerStartedAt' = s.sessionTimerStartedAt
  /\ sessionTimerRemainingMs' = s.sessionTimerRemainingMs
  /\ currentTargetWatts' = s.currentTargetWatts
  /\ connectedDeviceLabel' = s.connectedDeviceLabel
  /\ connectedDeviceId' = s.connectedDeviceId
  /\ discoveredPeripherals' = s.discoveredPeripherals
  /\ discovering' = s.discovering
  /\ adapterState' = s.adapterState
  /\ perState' = s.perState
  /\ listeners' = s.listeners
  /\ heartRateListeners' = s.heartRateListeners
  /\ now' = s.now - delta
  /\ tasks' = Compact(s.tasks)
  /\ events' = RebasedEvents(s.events, delta)
  /\ wrote' = s.wrote
  /\ done' = s.done
  /\ UNCHANGED << inRange, callers, faulty, aging, call, outcome >>
  /\ budget' = s.budget


----------------------------------------------------------------------------
\* Control flow of a task.

Goto(s, i, l) == [s EXCEPT !.tasks[i].pc = l]

\* await f(), continuing at r.
Call(s, i, f, r) ==
  [s EXCEPT !.tasks[i].pc = f, !.tasks[i].stack = <<r>> \o @]

\* The method the caller invoked settles.
Finish(s, i, ok) ==
  [s EXCEPT !.tasks[i] = Idle,
            !.done = Append(@, [op |-> s.tasks[i].op, ok |-> ok,
                                log |-> s.tasks[i].log, ret |-> s.tasks[i].ret,
                                watts |-> s.tasks[i].watts,
                                delta |-> s.tasks[i].delta,
                                dur |-> s.tasks[i].dur])]

Return(s, i) ==
  IF s.tasks[i].stack = <<>>
  THEN Finish(s, i, TRUE)
  ELSE [s EXCEPT !.tasks[i].pc = Head(s.tasks[i].stack),
                 !.tasks[i].stack = Tail(@)]

\* Fault: shutdown does not catch the errors of its writes.
CatchLabels_shutdownUncaught == {"disconnect_stopped"}

\* Continuations inside a try block whose catch ignores the error.
CatchLabels ==
  {"disconnect_stopped", "shutdown_stopWritten", "shutdown_resetWritten",
   "shutdown_heartRateDisconnected"}

RECURSIVE Throw(_, _)
Throw(s, i) ==
  IF s.tasks[i].stack = <<>> THEN Finish(s, i, FALSE)
  ELSE IF Head(s.tasks[i].stack) \in CatchLabels THEN Return(s, i)
  ELSE Throw([s EXCEPT !.tasks[i].stack = Tail(@)], i)

----------------------------------------------------------------------------
\* Synchronous helpers.

\* The label is the advertised name, or "FTMS service 1826" for a peripheral
\* that advertises none, followed by the identifier.
buildDeviceLabel(p) ==
  CASE p = "p1" -> "Trainer 1"
    [] p = "p2" -> "Trainer 2"
    [] p = "h1" -> "Heart 1"
    [] OTHER -> "FTMS service 1826"

\* The labels in the order of String.prototype.localeCompare.
LabelOrder == <<"FTMS service 1826", "Heart 1", "Trainer 1", "Trainer 2">>

\* a.localeCompare(b): negative, zero or positive.
localeCompare(a, b) ==
  (CHOOSE k \in DOMAIN LabelOrder : LabelOrder[k] = a)
    - (CHOOSE k \in DOMAIN LabelOrder : LabelOrder[k] = b)

\* The kind handleDiscover gives a device.
deviceKind(p) ==
  IF FTMS_SERVICE_UUID \in serviceUuids(p) THEN "trainer"
  ELSE IF HEART_RATE_SERVICE_UUID \in serviceUuids(p) THEN "heart-rate"
  ELSE "unknown"

Field(partial, f, default) == IF f \in DOMAIN partial THEN partial[f] ELSE default

emitStatus(s, partial) ==
  [s EXCEPT !.events = Append(@,
     [type |-> "status",
      connected |-> Field(partial, "connected", s.peripheral # None),
      controlling |-> Field(partial, "controlling", s.isControlling),
      running |-> Field(partial, "running", s.isRunning),
      scanning |-> Field(partial, "scanning", s.discovering),
      message |-> Field(partial, "message", <<>>),
      paused |-> Field(partial, "paused", s.isPaused),
      deviceId |-> s.connectedDeviceId])]

\* The connected flag emitDevices and handleDiscover compute.
isConnected(s, id) == id = s.connectedDeviceId \/ id = s.connectedHeartRateId

\* Fault: the comparator does not look at the kinds.
compareDevices_kindBlind(a, b) ==
  IF a.connected # b.connected THEN (IF a.connected THEN -1 ELSE 1)
  ELSE IF a.label # b.label THEN localeCompare(a.label, b.label)
  ELSE 0

\* The comparator emitDevices sorts with, on device records.
compareDevices(a, b) ==
  IF a.connected # b.connected THEN (IF a.connected THEN -1 ELSE 1)
  ELSE IF a.kind # b.kind /\ a.kind = "trainer" THEN -1
  ELSE IF a.kind # b.kind /\ b.kind = "trainer" THEN 1
  ELSE IF a.kind # b.kind /\ a.kind = "heart-rate" THEN -1
  ELSE IF a.kind # b.kind /\ b.kind = "heart-rate" THEN 1
  ELSE IF a.label # b.label THEN localeCompare(a.label, b.label)
  ELSE 0

\* Array.prototype.sort is stable: a record goes behind the records that
\* compare equal to it.
RECURSIVE SortInsert(_, _)
SortInsert(sorted, x) ==
  IF sorted = <<>> THEN <<x>>
  ELSE IF compareDevices(x, Head(sorted)) < 0 THEN <<x>> \o sorted
  ELSE <<Head(sorted)>> \o SortInsert(Tail(sorted), x)

RECURSIVE sort(_)
sort(devices) ==
  IF devices = <<>> THEN <<>>
  ELSE SortInsert(sort(SubSeq(devices, 1, Len(devices) - 1)), devices[Len(devices)])

\* The keys of discoveredDevices are taken in this order (the comparator
\* ties only on equal labels, and the labels differ).
RegistryOrder == <<"p1", "p2", "h1", "u1">>

\* Fault: an entry is stale from the staleness window on, not after it.
isStale_atWindow(s, id) ==
  s.now - s.discoveredDevices[id][1] >= DEVICE_STALE_MS

\* The age test of emitDevices.
isStale(s, id) ==
  s.now - s.discoveredDevices[id][1] > DEVICE_STALE_MS

\* The device list: the stale entries are dropped, then every registered
\* device is listed with its connected flag, sorted.
emitDevices(s) ==
  LET kept == [id \in Peripherals |->
                 IF /\ s.discoveredDevices[id] # <<>>
                    /\ ~isConnected(s, id)
                    /\ isStale(s, id)
                 THEN <<>> ELSE s.discoveredDevices[id]]
      ids == SelectSeq(RegistryOrder, LAMBDA id : kept[id] # <<>>)
      devices == [k \in DOMAIN ids |->
                    [id |-> ids[k], label |-> buildDeviceLabel(ids[k]),
                     kind |-> deviceKind(ids[k]),
                     connected |-> isConnected(s, ids[k]),
                     lastSeen |-> kept[ids[k]][1]]]
  IN [s EXCEPT !.discoveredDevices = kept,
               !.events = Append(@,
                 [type |-> "devices",
                  devices |-> sort(devices),
                  connected |-> {id \in Peripherals :
                                   kept[id] # <<>> /\ isConnected(s, id)}])]

handleDiscover(s, p) ==
  emitDevices([s EXCEPT !.discoveredPeripherals = @ \cup {p},
                        !.discoveredDevices[p] = <<s.now>>])

\* clearTimeout of the handle in the field: the timeout armed last.
clearTimeout(armed) == SubSeq(armed, 1, Len(armed) - 1)

clearSessionTimer(s) ==
  IF s.sessionTimer
  THEN [s EXCEPT !.timeouts = clearTimeout(@),
                 !.sessionTimer = FALSE,
                 !.sessionTimerStartedAt = <<>>]
  ELSE [s EXCEPT !.sessionTimerStartedAt = <<>>]

\* Fault: a timer is armed without cancelling the one the field holds.
scheduleSessionTimer_uncancelled(s) ==
  IF s.sessionTimerRemainingMs = <<>> \/ s.sessionTimerRemainingMs[1] <= 0
  THEN [clearSessionTimer(s) EXCEPT !.sessionTimerRemainingMs = <<>>]
  ELSE [s EXCEPT !.sessionTimerStartedAt = <<s.now>>,
                 !.sessionTimer = TRUE,
                 !.timeouts = Append(@, s.now + s.sessionTimerRemainingMs[1])]

scheduleSessionTimer(s) ==
  LET c == clearSessionTimer(s) IN
  IF c.sessionTimerRemainingMs = <<>> \/ c.sessionTimerRemainingMs[1] <= 0
  THEN [c EXCEPT !.sessionTimerRemainingMs = <<>>]
  ELSE [c EXCEPT !.sessionTimerStartedAt = <<c.now>>,
                 !.sessionTimer = TRUE,
                 !.timeouts = Append(@, c.now + c.sessionTimerRemainingMs[1])]

\* Fault: the listener leaves the auto-stop timer armed.
onDisconnect_timerKept(s) ==
  LET disconnectedLabel == s.connectedDeviceLabel
      c == [s EXCEPT !.peripheral = None,
                     !.controlPointCharacteristic = None,
                     !.indoorBikeCharacteristic = None,
                     !.statusCharacteristic = None,
                     !.isControlling = FALSE,
                     !.isRunning = FALSE,
                     !.isPaused = FALSE,
                     !.sessionTimerRemainingMs = <<>>]
      d == emitDevices([c EXCEPT !.connectedDeviceLabel = None,
                                 !.connectedDeviceId = None])
      message == IF disconnectedLabel # None
                 THEN <<"Trainer disconnected", disconnectedLabel>>
                 ELSE <<"Trainer disconnected">>
  IN emitStatus(d, [message |-> message, connected |-> FALSE, controlling |-> FALSE,
                    running |-> FALSE, paused |-> FALSE])

\* The listener bindPeripheral registers with peripheral.once('disconnect').
onDisconnect(s) ==
  LET disconnectedLabel == s.connectedDeviceLabel
      c == clearSessionTimer(
             [s EXCEPT !.peripheral = None,
                       !.controlPointCharacteristic = None,
                       !.indoorBikeCharacteristic = None,
                       !.statusCharacteristic = None,
                       !.isControlling = FALSE,
                       !.isRunning = FALSE,
                       !.isPaused = FALSE,
                       !.sessionTimerRemainingMs = <<>>])
      d == emitDevices([c EXCEPT !.connectedDeviceLabel = None,
                                 !.connectedDeviceId = None])
      message == IF disconnectedLabel # None
                 THEN <<"Trainer disconnected", disconnectedLabel>>
                 ELSE <<"Trainer disconnected">>
  IN emitStatus(d, [message |-> message, connected |-> FALSE, controlling |-> FALSE,
                    running |-> FALSE, paused |-> FALSE])

\* Fault: the heart-rate listener ends the session of the control device.
onHeartRateDisconnect_endsSession(s) ==
  LET disconnectedId == s.connectedHeartRateId
      c == emitDevices([s EXCEPT !.heartRatePeripheral = None,
                                 !.heartRateCharacteristic = None,
                                 !.connectedHeartRateId = None,
                                 !.isRunning = FALSE,
                                 !.isPaused = FALSE])
      label == IF disconnectedId # None /\ c.discoveredDevices[disconnectedId] # <<>>
               THEN <<buildDeviceLabel(disconnectedId)>>
               ELSE <<>>
  IN emitStatus(c, [message |-> <<"Heart rate monitor disconnected">> \o label])

\* The listener bindHeartRatePeripheral registers with
\* peripheral.once('disconnect').
onHeartRateDisconnect(s) ==
  LET disconnectedId == s.connectedHeartRateId
      c == emitDevices([s EXCEPT !.heartRatePeripheral = None,
                                 !.heartRateCharacteristic = None,
                                 !.connectedHeartRateId = None])
      label == IF disconnectedId # None /\ c.discoveredDevices[disconnectedId] # <<>>
               THEN <<buildDeviceLabel(disconnectedId)>>
               ELSE <<>>
  IN emitStatus(c, [message |-> <<"Heart rate monitor disconnected">> \o label])

resolveDeviceKind(s, deviceId, explicitKind) ==
  IF explicitKind # None THEN explicitKind
  ELSE IF deviceId # None /\ deviceId = s.connectedHeartRateId THEN "heart-rate"
  ELSE IF /\ deviceId # None
          /\ s.discoveredDevices[deviceId] # <<>>
          /\ deviceKind(deviceId) = "heart-rate"
  THEN "heart-rate"
  ELSE "trainer"

----------------------------------------------------------------------------
\* The asynchronous methods, one definition per stretch of code between two
\* suspension points.  s is the state, i the task running the code.

\* Labels at which a task waits for the radio adapter.
WaitLabels ==
  {"stopDiscovery_wait", "startDiscovery_wait", "startDiscovery_adapter",
   "connect_adapter",
   "scan_wait", "scan_stop",
   "stopScanning_wait",
   "heartRate_connect", "heartRate_discover", "heartRate_disconnect",
   "heartRate_subscribe",
   "bind_connect", "bind_discover", "bind_subscribe_data",
   "bind_subscribe_control", "bind_subscribe_status", "write_wait",
   "disconnect_wait"}

CallWrite(s, i, buffer, r) ==
  Call([s EXCEPT !.tasks[i].buf = buffer], i, "writeControlPoint", r)

writeControlPoint(s, i) ==
  IF s.controlPointCharacteristic = None
  THEN Throw(s, i)
  ELSE LET w == [op |-> s.tasks[i].op, buf |-> s.tasks[i].buf,
                 ch |-> s.controlPointCharacteristic,
                 controlling |-> s.isControlling,
                 at |-> Head(s.tasks[i].stack)]   \* where the writer continues
       IN Goto([s EXCEPT !.wrote = Append(@, w),
                         !.tasks[i].log = Append(@, s.tasks[i].buf)],
               i, "write_wait")

stopDiscovery(s, i) ==
  IF ~s.discovering
  THEN Return(s, i)
  ELSE Goto([s EXCEPT !.discovering = FALSE], i, "stopDiscovery_wait")

stopDiscovery_stopped(s, i) ==
  Return(emitStatus(s, [scanning |-> FALSE]), i)

\* The scan startDiscovery begins, up to the call of noble.startScanningAsync.
begin(s, i) ==
  LET gone == {id \in Peripherals : /\ s.discoveredDevices[id] # <<>>
                                    /\ id # s.connectedDeviceId
                                    /\ id # s.connectedHeartRateId}
  IN Goto(emitDevices(
            [s EXCEPT !.discovering = TRUE,
                      !.discoveredDevices =
                         [id \in Peripherals |-> IF id \in gone THEN <<>> ELSE @[id]],
                      !.discoveredPeripherals = @ \ gone]),
          i, "startDiscovery_wait")

\* Fault: the scan begins whatever the state of the adapter.
startDiscovery_adapterIgnored(s, i) ==
  IF s.discovering
  THEN Return(emitDevices(s), i)
  ELSE begin(s, i)

\* A call made while the adapter is not powered on registers handleState
\* for 'stateChange' and waits at startDiscovery_adapter.
startDiscovery(s, i) ==
  IF s.discovering
  THEN Return(emitDevices(s), i)
  ELSE IF s.adapterState = "poweredOn"
  THEN begin(s, i)
  ELSE Goto(s, i, "startDiscovery_adapter")

startDiscovery_started(s, i) ==
  Return(emitStatus(s, [scanning |-> TRUE, message |-> <<"Scanning for devices">>]), i)

startDiscovery_failed(s, i) ==
  Throw([s EXCEPT !.discovering = FALSE], i)

\* connect has to scan: at once when the adapter is powered on; otherwise it
\* registers handleState for 'stateChange' and waits at connect_adapter.
connect_scan(s, i) ==
  IF s.adapterState = "poweredOn"
  THEN Call(s, i, "scanAndConnect", "connect_return")
  ELSE Goto(s, i, "connect_adapter")

\* Fault: connect does not look at this.peripheral.
connect_unguarded(s, i) ==
  LET deviceId == s.tasks[i].want IN
  IF resolveDeviceKind(s, deviceId, s.tasks[i].kind) = "heart-rate"
  THEN Goto(s, i, "connectHeartRate")
  ELSE IF deviceId # None /\ deviceId \in s.discoveredPeripherals
  THEN Call([s EXCEPT !.tasks[i].per = deviceId], i, "stopDiscovery", "connect_bind")
  ELSE connect_scan(s, i)

connect(s, i) ==
  IF resolveDeviceKind(s, s.tasks[i].want, s.tasks[i].kind) = "heart-rate"
  THEN Goto(s, i, "connectHeartRate")
  ELSE IF s.peripheral # None
  THEN Return([emitStatus(s, [message |-> <<"Trainer already connected">>])
                 EXCEPT !.tasks[i].ret = <<s.connectedDeviceLabel>>], i)
  ELSE LET deviceId == s.tasks[i].want IN
       IF deviceId # None /\ deviceId \in s.discoveredPeripherals
       THEN Call([s EXCEPT !.tasks[i].per = deviceId], i, "stopDiscovery", "connect_bind")
       ELSE connect_scan(s, i)

connect_bind(s, i) == Call(s, i, "bindPeripheral", "connect_return")

connect_return(s, i) ==
  Return([s EXCEPT !.tasks[i].ret = <<s.connectedDeviceLabel>>], i)

\* The label connectHeartRate returns: that of the registry entry.
registeredLabel(s, id) ==
  IF s.discoveredDevices[id] # <<>> THEN buildDeviceLabel(id) ELSE None

connectHeartRate(s, i) ==
  LET deviceId == s.tasks[i].want IN
  IF s.heartRatePeripheral # None /\ s.connectedHeartRateId # None
  THEN Return([s EXCEPT !.tasks[i].ret =
                 <<registeredLabel(s, s.connectedHeartRateId)>>], i)
  ELSE IF deviceId = None THEN Throw(s, i)
  ELSE IF deviceId \notin s.discoveredPeripherals THEN Throw(s, i)
  ELSE Call([s EXCEPT !.tasks[i].per = deviceId], i,
            "stopDiscovery", "connectHeartRate_bind")

connectHeartRate_bind(s, i) ==
  Call(s, i, "bindHeartRatePeripheral", "connectHeartRate_return")

connectHeartRate_return(s, i) ==
  Return([s EXCEPT !.tasks[i].ret = <<buildDeviceLabel(s.tasks[i].want)>>], i)

bindHeartRatePeripheral(s, i) ==
  Goto(handleDiscover(s, s.tasks[i].per), i, "heartRate_connect")

\* found: the discovery returned the heart-rate measurement characteristic.
bindHeartRatePeripheral_discovered(s, i, found) ==
  LET p == s.tasks[i].per IN
  IF ~found
  THEN Goto(s, i, "heartRate_disconnect")
  ELSE Goto([s EXCEPT !.heartRatePeripheral = p,
                      !.heartRateCharacteristic = p,
                      !.connectedHeartRateId = p,
                      !.heartRateListeners[p] = Min(@ + 1, MaxListeners)],
            i, "heartRate_subscribe")

bindHeartRatePeripheral_subscribed(s, i) ==
  LET d == emitDevices(s)
      id == s.tasks[i].per
      label == IF d.discoveredDevices[id] # <<>>
               THEN registeredLabel(d, id) ELSE buildDeviceLabel(id)
  IN Return(emitStatus(d, [message |-> <<"Heart rate monitor connected", label>>]), i)

disconnectHeartRate(s, i) ==
  IF s.heartRatePeripheral = None
  THEN Return(s, i)
  ELSE IF s.perState[s.heartRatePeripheral] \in {"connected", "connecting"}
  THEN Goto([s EXCEPT !.tasks[i].per = s.heartRatePeripheral], i, "disconnect_wait")
  ELSE Return(s, i)

ensureConnected(s, i) ==
  IF s.peripheral = None
  THEN Call([s EXCEPT !.tasks[i].want = None, !.tasks[i].kind = None,
                      !.tasks[i].name = <<>>],
            i, "connect", "return")
  ELSE Return(s, i)

scanAndConnect(s, i) == Call(s, i, "stopDiscovery", "scanAndConnect_begin")

scanAndConnect_begin(s, i) ==
  Goto(emitStatus(s, [scanning |-> TRUE, message |-> <<"Scanning for trainer">>]),
       i, "scan_wait")

\* String.prototype.toLowerCase, on a sequence of characters.
toLowerCase(str) ==
  [k \in DOMAIN str |->
     CASE str[k] = "T" -> "t" [] str[k] = "H" -> "h" [] str[k] = "R" -> "r"
       [] str[k] = "A" -> "a" [] str[k] = "I" -> "i" [] str[k] = "N" -> "n"
       [] OTHER -> str[k]]

\* String.prototype.includes: part occurs in str.
includes(str, part) ==
  \E k \in 0..(Len(str) - Len(part)) : SubSeq(str, k + 1, k + Len(part)) = part

\* !deviceName || (localName || '').toLowerCase().includes(deviceName.toLowerCase())
matchesName(p, deviceName) ==
  deviceName = <<>> \/ includes(toLowerCase(localName(p)), toLowerCase(deviceName))

\* onDiscover of scanAndConnect, for an advertisement of p.
onDiscover(s, i, p) ==
  LET deviceId == s.tasks[i].want
      matchesService == FTMS_SERVICE_UUID \in serviceUuids(p)
      matchesId == deviceId = None \/ p = deviceId
      h == handleDiscover(s, p)
  IN IF ~matchesService \/ ~matchesName(p, s.tasks[i].name) \/ ~matchesId THEN h
     ELSE Goto([h EXCEPT !.tasks[i].per = p], i, "scan_stop")

scanAndConnect_stopped(s, i) ==
  Call(emitStatus(s, [scanning |-> FALSE]), i, "bindPeripheral", "return")

\* Fault: the timeout leaves onDiscover registered.
scanAndConnect_timeout_listenerKept(s, i) ==
  [Throw([s EXCEPT !.tasks[i].ret = <<"Timed out searching for FTMS trainer">>], i)
     EXCEPT !.tasks[i] = [Idle EXCEPT !.op = "stopScanning",
                                      !.pc = "scan_wait",
                                      !.want = s.tasks[i].want,
                                      !.name = s.tasks[i].name]]

\* The timeout of scanAndConnect: the promise rejects with the timeout error,
\* and the stopScanning it started without awaiting it goes on in the slot
\* of the task.
scanAndConnect_timeout(s, i) ==
  [Throw([s EXCEPT !.tasks[i].ret = <<"Timed out searching for FTMS trainer">>], i)
     EXCEPT !.tasks[i] = [Idle EXCEPT !.op = "stopScanning",
                                      !.pc = "stopScanning_wait"]]

stopScanning_stopped(s, i) ==
  Return(emitStatus(s, [scanning |-> FALSE]), i)

bindPeripheral(s, i) ==
  LET p == s.tasks[i].per
      b == [s EXCEPT !.peripheral = p,
                     !.connectedDeviceLabel = buildDeviceLabel(p),
                     !.connectedDeviceId = p]
      h == handleDiscover(b, p)
  IN Goto([h EXCEPT !.listeners[p] = Min(@ + 1, MaxListeners)], i, "bind_connect")

\* found: the characteristics the discovery returned.
bindPeripheral_discovered(s, i, found) ==
  LET p == s.tasks[i].per
      c == [s EXCEPT
              !.controlPointCharacteristic = IF "2ad9" \in found THEN p ELSE @,
              !.indoorBikeCharacteristic = IF "2ad2" \in found THEN p ELSE @,
              !.statusCharacteristic = IF "2ada" \in found THEN p ELSE @]
  IN IF c.controlPointCharacteristic = None \/ c.indoorBikeCharacteristic = None
     THEN Throw(c, i)
     ELSE Goto(c, i, "bind_subscribe_data")

\* subscribe(undefined, ...) throws.
bindPeripheral_subscribedData(s, i) ==
  IF s.controlPointCharacteristic = None
  THEN Throw(s, i)
  ELSE Goto(s, i, "bind_subscribe_control")

bindPeripheral_subscribedControl(s, i) ==
  IF s.statusCharacteristic # None
  THEN Goto(s, i, "bind_subscribe_status")
  ELSE CallWrite(s, i, <<FTMS_REQUEST_CONTROL>>, "bindPeripheral_requested")

bindPeripheral_subscribedStatus(s, i) ==
  CallWrite(s, i, <<FTMS_REQUEST_CONTROL>>, "bindPeripheral_requested")

bindPeripheral_requested(s, i) ==
  LET c == [s EXCEPT !.isControlling = TRUE]
      message == IF c.connectedDeviceLabel # None
                 THEN <<"Trainer connected", c.connectedDeviceLabel>>
                 ELSE <<"Trainer connected">>
  IN Return(emitDevices(emitStatus(c, [message |-> message, connected |-> TRUE,
                                       controlling |-> TRUE])), i)

requestControl(s, i) ==
  IF s.isControlling
  THEN Return(s, i)
  ELSE Call(s, i, "ensureConnected", "requestControl_connected")

requestControl_connected(s, i) ==
  CallWrite(s, i, <<FTMS_REQUEST_CONTROL>>, "requestControl_written")

requestControl_written(s, i) ==
  LET c == [s EXCEPT !.isControlling = TRUE]
  IN Return(emitStatus(c, [controlling |-> TRUE, connected |-> TRUE,
                           running |-> c.isRunning]), i)

\* Math.round on a number of half watts.
Round(h) == ((h + 1) \div 2) * 2

\* Fault: the upper limit of the clamp is missing.
SafeWatts_noUpperLimit(watts) == Max(0, Round(watts))

SafeWatts(watts) == Max(0, Min(Round(watts), 2500 * 2))

setTargetWatts(s, i) == Call(s, i, "ensureConnected", "setTargetWatts_connected")

setTargetWatts_connected(s, i) == Call(s, i, "requestControl", "setTargetWatts_controlling")

\* Fault: the target is stored and reported before the write is acknowledged.
setTargetWatts_controlling_eager(s, i) ==
  LET safeWatts == SafeWatts(s.tasks[i].watts)
  IN CallWrite([s EXCEPT !.currentTargetWatts = safeWatts,
                         !.events = Append(@, [type |-> "target-watts",
                                               watts |-> safeWatts])],
               i, <<FTMS_SET_TARGET_POWER, safeWatts>>, "setTargetWatts_written")

setTargetWatts_controlling(s, i) ==
  LET safeWatts == SafeWatts(s.tasks[i].watts)
  IN CallWrite(s, i, <<FTMS_SET_TARGET_POWER, safeWatts>>, "setTargetWatts_written")

setTargetWatts_written(s, i) ==
  LET safeWatts == s.tasks[i].buf[2]
  IN Return([s EXCEPT !.currentTargetWatts = safeWatts,
                      !.events = Append(@, [type |-> "target-watts",
                                            watts |-> safeWatts])], i)

\* Fault: the delta is taken as the target.
nudgeWatts_absolute(s, i) ==
  LET updated == s.tasks[i].delta
  IN Call([s EXCEPT !.tasks[i].watts = updated], i, "setTargetWatts", "nudgeWatts_return")

nudgeWatts(s, i) ==
  LET updated == s.currentTargetWatts + s.tasks[i].delta
  IN Call([s EXCEPT !.tasks[i].watts = updated], i, "setTargetWatts", "nudgeWatts_return")

nudgeWatts_return(s, i) ==
  Return([s EXCEPT !.tasks[i].ret = <<s.currentTargetWatts>>], i)

startSession(s, i) == Call(s, i, "ensureConnected", "startSession_connected")

startSession_connected(s, i) == Call(s, i, "requestControl", "startSession_controlling")

startSession_controlling(s, i) == Call(s, i, "setTargetWatts", "startSession_targeted")

\* startOrResume
startSession_targeted(s, i) ==
  CallWrite(s, i, <<FTMS_START_RESUME>>, "startSession_started")

\* Fault: startSession does not arm the auto-stop timer.
startSession_started_untimed(s, i) ==
  LET c == [s EXCEPT !.isRunning = TRUE, !.isPaused = FALSE]
  IN Return(emitStatus(c, [message |-> <<"ERG session running">>, running |-> TRUE,
                           controlling |-> c.isControlling, paused |-> FALSE]), i)

startSession_started(s, i) ==
  LET durationSeconds == s.tasks[i].dur
      c == scheduleSessionTimer(
             [s EXCEPT !.isRunning = TRUE,
                       !.isPaused = FALSE,
                       !.sessionTimerRemainingMs =
                          IF durationSeconds # <<>> /\ durationSeconds[1] > 0
                          THEN <<durationSeconds[1] * 1000>> ELSE <<>>])
  IN Return(emitStatus(c, [message |-> <<"ERG session running">>, running |-> TRUE,
                           controlling |-> c.isControlling, paused |-> FALSE]), i)

stopSession(s, i) ==
  IF s.peripheral = None \/ s.controlPointCharacteristic = None
  THEN Return(s, i)
  ELSE CallWrite(s, i, <<FTMS_STOP_PAUSE>>, "stopSession_written")

stopSession_written(s, i) ==
  LET c == clearSessionTimer([s EXCEPT !.isRunning = FALSE,
                                       !.isPaused = FALSE,
                                       !.sessionTimerRemainingMs = <<>>])
  IN Return(emitStatus(c, [message |-> <<"ERG session stopped">>, running |-> FALSE,
                           controlling |-> c.isControlling, paused |-> FALSE]), i)

\* Fault: pauseSession does not look at isRunning.
pauseSession_unguarded(s, i) ==
  IF s.peripheral = None \/ s.controlPointCharacteristic = None
  THEN Return(s, i)
  ELSE CallWrite(s, i, <<FTMS_STOP_PAUSE>>, "pauseSession_written")

pauseSession(s, i) ==
  IF s.peripheral = None \/ s.controlPointCharacteristic = None
  THEN Return(s, i)
  ELSE IF ~s.isRunning
  THEN Return(s, i)
  ELSE CallWrite(s, i, <<FTMS_STOP_PAUSE>>, "pauseSession_written")

\* Fault: pauseSession leaves the auto-stop timer armed.
pauseSession_written_timerKept(s, i) ==
  LET r == [s EXCEPT !.isRunning = FALSE, !.isPaused = TRUE]
      e == IF r.sessionTimerStartedAt # <<>> /\ r.sessionTimerRemainingMs # <<>>
           THEN LET elapsed == r.now - r.sessionTimerStartedAt[1]
                IN [r EXCEPT !.sessionTimerRemainingMs =
                               <<Max(0, r.sessionTimerRemainingMs[1] - elapsed)>>]
           ELSE r
  IN Return(emitStatus(e, [message |-> <<"ERG session paused">>, running |-> FALSE,
                           controlling |-> e.isControlling, paused |-> TRUE]), i)

pauseSession_written(s, i) ==
  LET r == [s EXCEPT !.isRunning = FALSE, !.isPaused = TRUE]
      e == IF r.sessionTimerStartedAt # <<>> /\ r.sessionTimerRemainingMs # <<>>
           THEN LET elapsed == r.now - r.sessionTimerStartedAt[1]
                IN [r EXCEPT !.sessionTimerRemainingMs =
                               <<Max(0, r.sessionTimerRemainingMs[1] - elapsed)>>]
           ELSE r
      c == clearSessionTimer(e)
  IN Return(emitStatus(c, [message |-> <<"ERG session paused">>, running |-> FALSE,
                           controlling |-> c.isControlling, paused |-> TRUE]), i)

resumeSession(s, i) ==
  IF s.isRunning
  THEN Return(s, i)
  ELSE Call(s, i, "ensureConnected", "resumeSession_connected")

resumeSession_connected(s, i) == Call(s, i, "requestControl", "resumeSession_controlling")

\* startOrResume
resumeSession_controlling(s, i) ==
  CallWrite(s, i, <<FTMS_START_RESUME>>, "resumeSession_started")

\* Fault: resumeSession leaves the paused flag as it was.
resumeSession_started_pausedKept(s, i) ==
  LET c == scheduleSessionTimer([s EXCEPT !.isRunning = TRUE])
  IN Return(emitStatus(c, [message |-> <<"ERG session running">>, running |-> TRUE,
                           controlling |-> c.isControlling, paused |-> FALSE]), i)

resumeSession_started(s, i) ==
  LET c == scheduleSessionTimer([s EXCEPT !.isRunning = TRUE, !.isPaused = FALSE])
  IN Return(emitStatus(c, [message |-> <<"ERG session running">>, running |-> TRUE,
                           controlling |-> c.isControlling, paused |-> FALSE]), i)

disconnect(s, i) ==
  IF resolveDeviceKind(s, s.tasks[i].want, s.tasks[i].kind) = "heart-rate"
  THEN Goto(s, i, "disconnectHeartRate")
  ELSE IF s.peripheral = None
  THEN Return(s, i)
  ELSE Call(s, i, "stopSession", "disconnect_stopped")

disconnect_stopped(s, i) ==
  IF s.peripheral # None /\ s.perState[s.peripheral] = "connected"
  THEN Goto([s EXCEPT !.tasks[i].per = s.peripheral], i, "disconnect_wait")
  ELSE Return(s, i)

shutdown(s, i) == Call(s, i, "stopDiscovery", "shutdown_scanStopped")

shutdown_scanStopped(s, i) ==
  LET c == [clearSessionTimer(s) EXCEPT !.sessionTimerRemainingMs = <<>>]
  IN IF c.peripheral # None
     THEN CallWrite(c, i, <<FTMS_STOP_PAUSE>>, "shutdown_stopWritten")
     ELSE Goto(c, i, "shutdown_resetWritten")

shutdown_stopWritten(s, i) ==
  CallWrite(s, i, <<FTMS_RESET>>, "shutdown_resetWritten")

shutdown_resetWritten(s, i) ==
  Call([s EXCEPT !.tasks[i].kind = "heart-rate"], i,
       "disconnect", "shutdown_heartRateDisconnected")

shutdown_heartRateDisconnected(s, i) ==
  Call([s EXCEPT !.tasks[i].kind = None], i, "disconnect", "shutdown_disconnected")

shutdown_disconnected(s, i) ==
  LET c == [s EXCEPT !.isControlling = FALSE,
                     !.isRunning = FALSE,
                     !.isPaused = FALSE,
                     !.connectedDeviceLabel = IF s.peripheral = None THEN None ELSE @,
                     !.connectedDeviceId = IF s.peripheral = None THEN None ELSE @,
                     !.discoveredPeripherals = {},
                     !.discoveredDevices = [id \in Peripherals |-> <<>>],
                     !.heartRatePeripheral = None,
                     !.heartRateCharacteristic = None,
                     !.connectedHeartRateId = None]
  IN Return(emitDevices(c), i)

\* The code of task i from its label to the next one.
Step(s, i) ==
  LET pc == s.tasks[i].pc IN
  CASE pc = "return" -> Return(s, i)
    [] pc = "writeControlPoint" -> writeControlPoint(s, i)
    [] pc = "stopDiscovery" -> stopDiscovery(s, i)
    [] pc = "stopDiscovery_stopped" -> stopDiscovery_stopped(s, i)
    [] pc = "startDiscovery" -> startDiscovery(s, i)
    [] pc = "startDiscovery_started" -> startDiscovery_started(s, i)
    [] pc = "startDiscovery_failed" -> startDiscovery_failed(s, i)
    [] pc = "connect" -> connect(s, i)
    [] pc = "connect_bind" -> connect_bind(s, i)
    [] pc = "connect_return" -> connect_return(s, i)
    [] pc = "connectHeartRate" -> connectHeartRate(s, i)
    [] pc = "connectHeartRate_bind" -> connectHeartRate_bind(s, i)
    [] pc = "connectHeartRate_return" -> connectHeartRate_return(s, i)
    [] pc = "bindHeartRatePeripheral" -> bindHeartRatePeripheral(s, i)
    [] pc = "bindHeartRatePeripheral_subscribed" -> bindHeartRatePeripheral_subscribed(s, i)
    [] pc = "disconnectHeartRate" -> disconnectHeartRate(s, i)
    [] pc = "shutdown_heartRateDisconnected" -> shutdown_heartRateDisconnected(s, i)
    [] pc = "ensureConnected" -> ensureConnected(s, i)
    [] pc = "scanAndConnect" -> scanAndConnect(s, i)
    [] pc = "scanAndConnect_begin" -> scanAndConnect_begin(s, i)
    [] pc = "scanAndConnect_stopped" -> scanAndConnect_stopped(s, i)
    [] pc = "scanAndConnect_timeout" -> scanAndConnect_timeout(s, i)
    [] pc = "stopScanning_stopped" -> stopScanning_stopped(s, i)
    [] pc = "bindPeripheral" -> bindPeripheral(s, i)
    [] pc = "bindPeripheral_subscribedData" -> bindPeripheral_subscribedData(s, i)
    [] pc = "bindPeripheral_subscribedControl" -> bindPeripheral_subscribedControl(s, i)
    [] pc = "bindPeripheral_subscribedStatus" -> bindPeripheral_subscribedStatus(s, i)
    [] pc = "bindPeripheral_requested" -> bindPeripheral_requested(s, i)
    [] pc = "requestControl" -> requestControl(s, i)
    [] pc = "requestControl_connected" -> requestControl_connected(s, i)
    [] pc = "requestControl_written" -> requestControl_written(s, i)
    [] pc = "setTargetWatts" -> setTargetWatts(s, i)
    [] pc = "setTargetWatts_connected" -> setTargetWatts_connected(s, i)
    [] pc = "setTargetWatts_controlling" -> setTargetWatts_controlling(s, i)
    [] pc = "setTargetWatts_written" -> setTargetWatts_written(s, i)
    [] pc = "nudgeWatts" -> nudgeWatts(s, i)
    [] pc = "nudgeWatts_return" -> nudgeWatts_return(s, i)
    [] pc = "startSession" -> startSession(s, i)
    [] pc = "startSession_connected" -> startSession_connected(s, i)
    [] pc = "startSession_controlling" -> startSession_controlling(s, i)
    [] pc = "startSession_targeted" -> startSession_targeted(s, i)
    [] pc = "startSession_started" -> startSession_started(s, i)
    [] pc = "stopSession" -> stopSession(s, i)
    [] pc = "stopSession_written" -> stopSession_written(s, i)
    [] pc = "pauseSession" -> pauseSession(s, i)
    [] pc = "pauseSession_written" -> pauseSession_written(s, i)
    [] pc = "resumeSession" -> resumeSession(s, i)
    [] pc = "resumeSession_connected" -> resumeSession_connected(s, i)
    [] pc = "resumeSession_controlling" -> resumeSession_controlling(s, i)
    [] pc = "resumeSession_started" -> resumeSession_started(s, i)
    [] pc = "disconnect" -> disconnect(s, i)
    [] pc = "disconnect_stopped" -> disconnect_stopped(s, i)
    [] pc = "shutdown" -> shutdown(s, i)
    [] pc = "shutdown_scanStopped" -> shutdown_scanStopped(s, i)
    [] pc = "shutdown_stopWritten" -> shutdown_stopWritten(s, i)
    [] pc = "shutdown_resetWritten" -> shutdown_resetWritten(s, i)
    [] pc = "shutdown_disconnected" -> shutdown_disconnected(s, i)

\* Task i runs until it is suspended or settled.
RECURSIVE Run(_, _)
Run(s, i) ==
  IF s.tasks[i].op = None \/ s.tasks[i].pc \in WaitLabels
  THEN s
  ELSE Run(Step(s, i), i)

\* Task i continues at label l.
Resume(s, i, l) == Run(Goto(s, i, l), i)

\* The radio primitive task i awaits rejects.
Reject(s, i) == Run(Throw(s, i), i)

----------------------------------------------------------------------------
\* The notification decoders and the payload of set-target-power.  A Buffer
\* is a sequence of bytes; offset o of the code is element o + 1.

\* Fault: the test is for the bit being clear.
Has_clear(flags, mask) == (flags \div mask) % 2 = 0

\* flags & mask, for a mask of one bit.
Has(flags, mask) == (flags \div mask) % 2 = 1

\* Buffer reads: <<v>>, or <<>> where Node raises ERR_OUT_OF_RANGE.
readUInt8(data, offset) ==
  IF offset + 1 > Len(data) THEN <<>> ELSE <<data[offset + 1]>>

readUInt16LE(data, offset) ==
  IF offset + 2 > Len(data) THEN <<>>
  ELSE <<data[offset + 1] + 256 * data[offset + 2]>>

\* Fault: the two bytes are taken as an unsigned number.
readInt16LE_unsigned(data, offset) ==
  IF offset + 2 > Len(data) THEN <<>>
  ELSE <<data[offset + 1] + 256 * data[offset + 2]>>

readInt16LE(data, offset) ==
  IF offset + 2 > Len(data) THEN <<>>
  ELSE LET u == data[offset + 1] + 256 * data[offset + 2]
       IN <<IF u >= 32768 THEN u - 65536 ELSE u>>

\* raw / den is kept as the pair of the two numbers.
Ratio(raw, den) == [num |-> raw, den |-> den]

\* One if-block of handleIndoorBikeNotification, on the decoder state d:
\* the field is skipped, or read by read and stored under name.
Block(d, data, present, width, name, den, read(_, _)) ==
  IF d.raised \/ ~present THEN d
  ELSE IF name = None THEN [d EXCEPT !.offset = @ + width]
  ELSE LET raw == read(data, d.offset) IN
       IF raw = <<>> THEN [d EXCEPT !.raised = TRUE]
       ELSE [d EXCEPT !.offset = @ + width,
                      !.telemetry[name] = IF den = 1 THEN raw ELSE <<Ratio(raw[1], den)>>]

NoTelemetry ==
  [speedKph |-> <<>>, cadenceRpm |-> <<>>, powerWatts |-> <<>>, heartRateBpm |-> <<>>]

\* What the handler of an indoor-bike-data notification does: raised is TRUE
\* when a read throws, emitted holds the 'telemetry' event if there is one.
handleIndoorBikeNotification(data) ==
  IF Len(data) < 2 THEN [raised |-> FALSE, emitted |-> <<>>]
  ELSE
  LET flags == readUInt16LE(data, 0)[1]
      d0 == [raised |-> FALSE, offset |-> 2, telemetry |-> NoTelemetry]
      d1 == Block(d0, data, ~Has(flags, FTMS_FLAG_MORE_DATA), 2, "speedKph", 100, readUInt16LE)
      d2 == Block(d1, data, Has(flags, FTMS_FLAG_AVG_SPEED_PRESENT), 2, None, 1, readUInt8)
      d3 == Block(d2, data, Has(flags, FTMS_FLAG_INST_CADENCE_PRESENT), 2, "cadenceRpm", 2, readUInt16LE)
      d4 == Block(d3, data, Has(flags, FTMS_FLAG_AVG_CADENCE_PRESENT), 2, None, 1, readUInt8)
      d5 == Block(d4, data, Has(flags, FTMS_FLAG_TOTAL_DISTANCE_PRESENT), 3, None, 1, readUInt8)
      d6 == Block(d5, data, Has(flags, FTMS_FLAG_RESISTANCE_LEVEL_PRESENT), 2, None, 1, readUInt8)
      d7 == Block(d6, data, Has(flags, FTMS_FLAG_INST_POWER_PRESENT), 2, "powerWatts", 1, readInt16LE)
      d8 == Block(d7, data, Has(flags, FTMS_FLAG_AVG_POWER_PRESENT), 2, None, 1, readUInt8)
      d9 == Block(d8, data, Has(flags, FTMS_FLAG_EXPENDED_ENERGY_PRESENT), 5, None, 1, readUInt8)
      d10 == Block(d9, data, Has(flags, FTMS_FLAG_HEART_RATE_PRESENT) /\ d9.offset < Len(data),
                   1, "heartRateBpm", 1, readUInt8)
      d11 == Block(d10, data, Has(flags, FTMS_FLAG_MET_EQUIPMENT_PRESENT), 1, None, 1, readUInt8)
      d12 == Block(d11, data, Has(flags, FTMS_FLAG_ELAPSED_TIME_PRESENT), 2, None, 1, readUInt8)
      d13 == Block(d12, data, Has(flags, FTMS_FLAG_REMAINING_TIME_PRESENT), 2, None, 1, readUInt8)
  IN [raised |-> d13.raised,
      emitted |-> IF d13.raised THEN <<>> ELSE <<d13.telemetry>>]

\* Fault: the 16-bit value is read without a look at the length.
handleHeartRateNotification_unchecked(data) ==
  IF Len(data) = 0 THEN [raised |-> FALSE, emitted |-> <<>>]
  ELSE
  LET flags == readUInt8(data, 0)[1]
      offset == 1
      heartRate == IF Has(flags, 1)
                   THEN readUInt16LE(data, offset)
                   ELSE IF Len(data) >= offset + 1 THEN readUInt8(data, offset)
                   ELSE <<>>
  IN IF Has(flags, 1) /\ heartRate = <<>>
     THEN [raised |-> TRUE, emitted |-> <<>>]
     ELSE IF heartRate # <<>>
     THEN [raised |-> FALSE, emitted |-> << [heartRateBpm |-> heartRate] >>]
     ELSE [raised |-> FALSE, emitted |-> <<>>]

\* What the handler of a heart-rate-measurement notification does.
handleHeartRateNotification(data) ==
  IF Len(data) = 0 THEN [raised |-> FALSE, emitted |-> <<>>]
  ELSE
  LET flags == readUInt8(data, 0)[1]
      offset == 1
      heartRate == IF Has(flags, 1)
                   THEN (IF Len(data) >= offset + 2 THEN readUInt16LE(data, offset) ELSE <<>>)
                   ELSE IF Len(data) >= offset + 1 THEN readUInt8(data, offset)
                   ELSE <<>>
  IN IF heartRate # <<>>
     THEN [raised |-> FALSE, emitted |-> << [heartRateBpm |-> heartRate] >>]
     ELSE [raised |-> FALSE, emitted |-> <<>>]

\* Fault: the number is written high byte first.
writeInt16LE_bigEndian(value) ==
  IF value < -32768 \/ value > 32767 THEN <<>>
  ELSE LET u == IF value < 0 THEN value + 65536 ELSE value
       IN <<u \div 256, u % 256>>

\* The two bytes Buffer.writeInt16LE stores (<<>>: it raises ERR_OUT_OF_RANGE).
writeInt16LE(value) ==
  IF value < -32768 \/ value > 32767 THEN <<>>
  ELSE LET u == IF value < 0 THEN value + 65536 ELSE value
       IN <<u % 256, u \div 256>>

\* The payload setTargetWatts builds for safeWatts, in whole watts.
targetPowerPayload(safeWatts) ==
  <<FTMS_SET_TARGET_POWER>> \o writeInt16LE(safeWatts)

----------------------------------------------------------------------------
\* The turns of the event loop.

Init ==
  /\ peripheral = None
  /\ controlPointCharacteristic = None
  /\ indoorBikeCharacteristic = None
  /\ statusCharacteristic = None
  /\ isControlling = FALSE
  /\ isRunning = FALSE
  /\ isPaused = FALSE
  /\ sessionTimer = FALSE
  /\ timeouts = <<>>
  /\ sessionTimerStartedAt = <<>>
  /\ sessionTimerRemainingMs = <<>>
  /\ currentTargetWatts = 0
  /\ connectedDeviceLabel = None
  /\ connectedDeviceId = None
  /\ discoveredPeripherals = {}
  /\ discoveredDevices = [id \in Peripherals |-> <<>>]
  /\ heartRatePeripheral = None
  /\ heartRateCharacteristic = None
  /\ connectedHeartRateId = None
  /\ discovering = FALSE
  /\ adapterState = "poweredOn"
  /\ perState = [p \in Peripherals |-> "disconnected"]
  /\ listeners = [p \in Peripherals |-> 0]
  /\ heartRateListeners = [p \in Peripherals |-> 0]
  /\ now = Origin
  /\ tasks = [i \in TaskIds |-> Idle]
  /\ events = <<>>
  /\ wrote = <<>>
  /\ done = <<>>
  /\ inRange = {"p1"}
  /\ callers = 1
  /\ faulty = TRUE
  /\ aging = FALSE
  /\ call = [fn |-> None, arg |-> <<>>]
  /\ outcome = <<>>
  /\ budget = -1

\* How a radio primitive can settle: TRUE it resolves, FALSE it rejects.
Outcomes == IF faulty THEN BOOLEAN ELSE {TRUE}

\* The slot a new task takes.
FreeSlot(i) ==
  /\ tasks[i].op = None
  /\ \A j \in TaskIds : j < i => tasks[j].op # None

\* Tasks that run detached from any call.
Detached == {"timer", "stopScanning", "handleState"}

\* The callers may make another call.
MayCall ==
  Cardinality({j \in TaskIds : tasks[j].op \notin Detached \cup {None}}) < callers

\* A caller invokes the public method op with the arguments in locals.
Invoke(i, op, locals) ==
  /\ FreeSlot(i)
  /\ MayCall
  /\ budget # 0
  /\ Commit(Run([State EXCEPT !.budget = IF @ > 0 THEN @ - 1 ELSE @,
                              !.tasks[i] = [f \in DOMAIN Idle |->
                 IF f \in DOMAIN locals THEN locals[f]
                 ELSE IF f \in {"op", "pc"} THEN op ELSE Idle[f]]], i))

CallConnect ==
  \E i \in TaskIds, deviceId \in inRange \cup {None} :
    Invoke(i, "connect", [want |-> deviceId])

CallDisconnect ==
  \E i \in TaskIds : Invoke(i, "disconnect", <<>>)

CallStartDiscovery ==
  \E i \in TaskIds : Invoke(i, "startDiscovery", <<>>)

CallStopDiscovery ==
  \E i \in TaskIds : Invoke(i, "stopDiscovery", <<>>)

CallStartSession ==
  \E i \in TaskIds, options \in StartInputs :
    Invoke(i, "startSession", [watts |-> options[1], dur |-> options[2]])

CallStopSession ==
  \E i \in TaskIds : Invoke(i, "stopSession", <<>>)

CallPauseSession ==
  \E i \in TaskIds : Invoke(i, "pauseSession", <<>>)

CallResumeSession ==
  \E i \in TaskIds : Invoke(i, "resumeSession", <<>>)

CallSetTargetWatts ==
  \E i \in TaskIds, watts \in TargetInputs :
    Invoke(i, "setTargetWatts", [watts |-> watts])

CallNudgeWatts ==
  \E i \in TaskIds, delta \in NudgeInputs :
    Invoke(i, "nudgeWatts", [delta |-> delta])

CallShutdown ==
  \E i \in TaskIds : Invoke(i, "shutdown", <<>>)

\* noble.stopScanningAsync of stopDiscovery settles; a rejection is ignored.
StopDiscoveryDone ==
  \E i \in TaskIds :
    /\ tasks[i].pc = "stopDiscovery_wait"
    /\ Commit(Resume(State, i, "stopDiscovery_stopped"))

\* noble.stopScanningAsync of the stopScanning that onDiscover awaits settles;
\* a rejection is ignored.
StopScanningDone ==
  \E i \in TaskIds :
    /\ tasks[i].pc = "scan_stop"
    /\ Commit(Resume(State, i, "scanAndConnect_stopped"))

\* noble.stopScanningAsync of the stopScanning that the timeout started settles.
TimeoutStopScanningDone ==
  \E i \in TaskIds :
    /\ tasks[i].pc = "stopScanning_wait"
    /\ Commit(Resume(State, i, "stopScanning_stopped"))

\* noble.startScanningAsync of startDiscovery settles.
StartScanningDone ==
  \E i \in TaskIds, ok \in Outcomes :
    /\ tasks[i].pc = "startDiscovery_wait"
    /\ Commit(Resume(State, i, IF ok THEN "startDiscovery_started"
                                     ELSE "startDiscovery_failed"))

\* The states noble reports for the adapter.
AdapterStates == {"unknown", "poweredOff", "poweredOn", "unsupported", "unauthorized"}

\* The labels at which a handleState listener is registered for 'stateChange'.
AdapterLabels == {"startDiscovery_adapter", "connect_adapter"}

\* The listener handleState of task i hears that the adapter is in state.
\* Powered on, it removes itself and begins the scan (that of startDiscovery
\* or, for connect, scanAndConnect).  Unsupported or unauthorized, it rejects
\* the call, which has an effect the first time only, and stays registered:
\* the task goes on as the listener alone.
handleState(s, i, state) ==
  IF state = "poweredOn"
  THEN IF s.tasks[i].pc = "startDiscovery_adapter"
       THEN Run(begin(s, i), i)
       ELSE Run(Call(s, i, "scanAndConnect",
                     IF s.tasks[i].op = "handleState" THEN "return"
                     ELSE "connect_return"), i)
  ELSE IF state \in {"unsupported", "unauthorized"} /\ s.tasks[i].op # "handleState"
  THEN [Throw(s, i)
          EXCEPT !.tasks[i] = [Idle EXCEPT !.op = "handleState",
                                           !.pc = s.tasks[i].pc,
                                           !.want = s.tasks[i].want,
                                           !.name = s.tasks[i].name]]
  ELSE s

\* The stateChange listeners, in turn, for tasks k..MaxTasks.
RECURSIVE StateChanged(_, _, _)
StateChanged(s, k, state) ==
  IF k > MaxTasks THEN s
  ELSE StateChanged(IF s.tasks[k].pc \in AdapterLabels
                    THEN handleState(s, k, state) ELSE s,
                    k + 1, state)

\* noble stores the new state of the adapter and emits 'stateChange'.
AdapterStateChange ==
  \E state \in AdapterStates :
    /\ state # adapterState
    /\ Commit(StateChanged([State EXCEPT !.adapterState = state], 1, state))

\* The discover listeners, in turn, for tasks k..MaxTasks.
RECURSIVE Discovered(_, _, _)
Discovered(s, k, p) ==
  IF k > MaxTasks THEN s
  ELSE Discovered(IF s.tasks[k].pc = "scan_wait" THEN Run(onDiscover(s, k, p), k) ELSE s,
                  k + 1, p)

\* A peripheral advertises while a scan is on.
Advertise ==
  \E p \in inRange :
    /\ discovering \/ \E i \in TaskIds : tasks[i].pc = "scan_wait"
    /\ Commit(Discovered(IF discovering THEN handleDiscover(State, p) ELSE State, 1, p))

ScanTimeout ==
  \E i \in TaskIds :
    /\ tasks[i].pc = "scan_wait"
    /\ Commit(Resume(State, i, "scanAndConnect_timeout"))

\* noble.startScanningAsync of scanAndConnect rejects: the timeout is
\* cleared, the listener removed and the promise rejected.
ScanStartFailed ==
  \E i \in TaskIds :
    /\ faulty
    /\ tasks[i].pc = "scan_wait"
    /\ Commit(Reject(State, i))

\* A peripheral advertises after scanAndConnect has removed its listener and
\* before the scan it is stopping has stopped.
AdvertiseLate ==
  \E p \in inRange :
    /\ ~discovering
    /\ \A i \in TaskIds : tasks[i].pc # "scan_wait"
    /\ \E i \in TaskIds : tasks[i].pc \in {"scan_stop", "stopScanning_wait"}
    /\ Commit(Discovered(State, 1, p))

\* The caller connects with an identifier and a name filter of its choice.
CallConnectFiltered ==
  \E i \in TaskIds, deviceId \in inRange \cup {None}, deviceName \in NameFilters :
    Invoke(i, "connect", [want |-> deviceId, name |-> deviceName])

\* peripheral.connectAsync settles.
ConnectDone ==
  \E i \in TaskIds, ok \in Outcomes :
    /\ tasks[i].pc = "bind_connect"
    /\ Commit(IF ok
              THEN Goto([State EXCEPT !.perState[tasks[i].per] = "connected"],
                        i, "bind_discover")
              ELSE Reject(State, i))

\* What a discovery of the FTMS characteristics can return.
Discoveries ==
  {{"2ad9", "2ad2", "2ada"}, {"2ad9", "2ad2"}, {"2ad2", "2ada"}, {"2ad9"}}

\* peripheral.discoverSomeServicesAndCharacteristicsAsync settles.
DiscoverDone ==
  \E i \in TaskIds :
    /\ tasks[i].pc = "bind_discover"
    /\ \/ \E found \in Discoveries :
            /\ faulty \/ found = {"2ad9", "2ad2", "2ada"}
            /\ Commit(Run(bindPeripheral_discovered(State, i, found), i))
       \/ faulty /\ Commit(Reject(State, i))

\* characteristic.subscribe settles.
SubscribeDone ==
  \E i \in TaskIds, ok \in Outcomes :
    /\ tasks[i].pc \in {"bind_subscribe_data", "bind_subscribe_control",
                        "bind_subscribe_status"}
    /\ Commit(IF ~ok THEN Reject(State, i)
              ELSE Resume(State, i,
                     CASE tasks[i].pc = "bind_subscribe_data" -> "bindPeripheral_subscribedData"
                       [] tasks[i].pc = "bind_subscribe_control" -> "bindPeripheral_subscribedControl"
                       [] tasks[i].pc = "bind_subscribe_status" -> "bindPeripheral_subscribedStatus"))

\* The callback of characteristic.write is called.  Nothing in the code orders
\* the callback against the 'disconnect' event of the peripheral: a write
\* pending when the link ends may still report success or an error.
WriteDone ==
  \E i \in TaskIds, ok \in Outcomes :
    /\ tasks[i].pc = "write_wait"
    /\ Commit(IF ok THEN Resume(State, i, "return") ELSE Reject(State, i))

\* The disconnect listeners of a peripheral, n of them, one after the other.
RECURSIVE Listeners(_, _)
Listeners(s, n) == IF n = 0 THEN s ELSE Listeners(onDisconnect(s), n - 1)

\* Those bindHeartRatePeripheral registered, n of them.
RECURSIVE HeartRateListeners(_, _)
HeartRateListeners(s, n) ==
  IF n = 0 THEN s ELSE HeartRateListeners(onHeartRateDisconnect(s), n - 1)

\* The tasks k..MaxTasks awaiting disconnectAsync of p continue.
RECURSIVE Disconnected(_, _, _)
Disconnected(s, k, p) ==
  IF k > MaxTasks THEN s
  ELSE Disconnected(IF s.tasks[k].pc = "disconnect_wait" /\ s.tasks[k].per = p
                    THEN Resume(s, k, "return")
                    ELSE IF s.tasks[k].pc = "heartRate_disconnect" /\ s.tasks[k].per = p
                    THEN Reject(s, k)
                    ELSE s,
                    k + 1, p)

\* The link to a connected peripheral ends (it is lost, or disconnectAsync
\* completes): the peripheral emits 'disconnect'.
LinkEnds(p) ==
  /\ perState[p] = "connected"
  /\ Commit(Disconnected(
              HeartRateListeners(
                Listeners([State EXCEPT !.perState[p] = "disconnected",
                                        !.listeners[p] = 0,
                                        !.heartRateListeners[p] = 0],
                          listeners[p]),
                heartRateListeners[p]),
              1, p))

PeripheralDisconnect == \E p \in inRange : LinkEnds(p)

\* peripheral.disconnectAsync rejects; disconnect ignores it.
DisconnectFailed ==
  \E i \in TaskIds :
    /\ tasks[i].pc = "disconnect_wait"
    /\ Commit(Resume(State, i, "return"))

\* The caller picks a device it was told of and connects to it.
CallConnectDevice ==
  \E i \in TaskIds, deviceId \in discoveredPeripherals :
    Invoke(i, "connect", [want |-> deviceId])

\* The caller disconnects a device by its identifier.
CallDisconnectDevice ==
  \E i \in TaskIds, deviceId \in {connectedDeviceId, connectedHeartRateId} \ {None} :
    Invoke(i, "disconnect", [want |-> deviceId])

\* peripheral.connectAsync of bindHeartRatePeripheral settles.
HeartRateConnectDone ==
  \E i \in TaskIds, ok \in Outcomes :
    /\ tasks[i].pc = "heartRate_connect"
    /\ Commit(IF ok
              THEN Goto([State EXCEPT !.perState[tasks[i].per] = "connected"],
                        i, "heartRate_discover")
              ELSE Reject(State, i))

\* The discovery of the heart-rate measurement characteristic settles: a
\* peripheral has the characteristic when it advertises the service, and a
\* faulty radio may not return it.
HeartRateDiscoverDone ==
  \E i \in TaskIds, found \in BOOLEAN :
    /\ tasks[i].pc = "heartRate_discover"
    /\ found => HEART_RATE_SERVICE_UUID \in serviceUuids(tasks[i].per)
    /\ ~found => faulty \/ HEART_RATE_SERVICE_UUID \notin serviceUuids(tasks[i].per)
    /\ Commit(Run(bindHeartRatePeripheral_discovered(State, i, found), i))

\* characteristic.subscribe of the heart-rate measurement settles.
HeartRateSubscribeDone ==
  \E i \in TaskIds, ok \in Outcomes :
    /\ tasks[i].pc = "heartRate_subscribe"
    /\ Commit(IF ok THEN Resume(State, i, "bindHeartRatePeripheral_subscribed")
              ELSE Reject(State, i))

\* peripheral.disconnectAsync of bindHeartRatePeripheral rejects; the error
\* is ignored and bindHeartRatePeripheral throws its own.
HeartRateDisconnectFailed ==
  \E i \in TaskIds :
    /\ tasks[i].pc = "heartRate_disconnect"
    /\ Commit(Reject(State, i))

\* Time passes, in a specification that follows the age of registry entries.
Age ==
  /\ aging
  /\ \E id \in Peripherals :
       /\ discoveredDevices[id] # <<>>
       /\ now - discoveredDevices[id][1] <= DEVICE_STALE_MS
  /\ Commit([State EXCEPT !.now = @ + StaleTickMs])

\* The callback of the timeout scheduleSessionTimer armed.
TimerFire ==
  \E i \in TaskIds, k \in DOMAIN timeouts :
    /\ FreeSlot(i)
    /\ now >= timeouts[k]
    /\ Commit(Run([State EXCEPT !.timeouts = SubSeq(@, 1, k - 1) \o SubSeq(@, k + 1, Len(@)),
                                !.sessionTimer = FALSE,
                                !.sessionTimerRemainingMs = <<>>,
                                !.sessionTimerStartedAt = <<>>,
                                !.tasks[i] = [Idle EXCEPT !.op = "timer",
                                                          !.pc = "stopSession"]], i))

\* Time passes while a timeout is armed (nothing else reads the clock).
Tick ==
  /\ timeouts # <<>>
  /\ now < Origin + MaxTime * TickMs
  /\ Commit([State EXCEPT !.now = @ + TickMs])

Next ==
  \/ CallConnect
  \/ CallDisconnect
  \/ CallStartDiscovery
  \/ CallStopDiscovery
  \/ CallStartSession
  \/ CallStopSession
  \/ CallPauseSession
  \/ CallResumeSession
  \/ CallSetTargetWatts
  \/ CallNudgeWatts
  \/ CallShutdown
  \/ StopDiscoveryDone
  \/ StopScanningDone
  \/ TimeoutStopScanningDone
  \/ StartScanningDone
  \/ Advertise
  \/ ScanTimeout
  \/ ConnectDone
  \/ DiscoverDone
  \/ SubscribeDone
  \/ WriteDone
  \/ PeripheralDisconnect
  \/ DisconnectFailed
  \/ TimerFire
  \/ Tick

Spec == Init /\ [][Next]_vars

\* The callers overlap a few calls of connect and startSession, with two
\* peripherals in range and a radio that rejects nothing.
InitOverlap ==
  /\ peripheral = None
  /\ controlPointCharacteristic = None
  /\ indoorBikeCharacteristic = None
  /\ statusCharacteristic = None
  /\ isControlling = FALSE
  /\ isRunning = FALSE
  /\ isPaused = FALSE
  /\ sessionTimer = FALSE
  /\ timeouts = <<>>
  /\ sessionTimerStartedAt = <<>>
  /\ sessionTimerRemainingMs = <<>>
  /\ currentTargetWatts = 0
  /\ connectedDeviceLabel = None
  /\ connectedDeviceId = None
  /\ discoveredPeripherals = {}
  /\ discoveredDevices = [id \in Peripherals |-> <<>>]
  /\ heartRatePeripheral = None
  /\ heartRateCharacteristic = None
  /\ connectedHeartRateId = None
  /\ discovering = FALSE
  /\ adapterState = "poweredOn"
  /\ perState = [p \in Peripherals |-> "disconnected"]
  /\ listeners = [p \in Peripherals |-> 0]
  /\ heartRateListeners = [p \in Peripherals |-> 0]
  /\ now = Origin
  /\ tasks = [i \in TaskIds |-> Idle]
  /\ events = <<>>
  /\ wrote = <<>>
  /\ done = <<>>
  /\ inRange = Trainers
  /\ callers = MaxTasks
  /\ faulty = FALSE
  /\ aging = FALSE
  /\ call = [fn |-> None, arg |-> <<>>]
  /\ outcome = <<>>
  /\ budget = MaxCalls

NextOverlap ==
  \/ CallConnect
  \/ CallStartSession
  \/ StopScanningDone
  \/ Advertise
  \/ ConnectDone
  \/ DiscoverDone
  \/ SubscribeDone
  \/ WriteDone
  \/ PeripheralDisconnect

SpecOverlap == InitOverlap /\ [][NextOverlap]_vars

\* Nudges that overlap: MaxTasks callers make MaxCalls + 1 nudgeWatts calls
\* in all, the first of which connects; the radio is not faulty and the device
\* stays connected.
InitNudge ==
  /\ peripheral = None
  /\ controlPointCharacteristic = None
  /\ indoorBikeCharacteristic = None
  /\ statusCharacteristic = None
  /\ isControlling = FALSE
  /\ isRunning = FALSE
  /\ isPaused = FALSE
  /\ sessionTimer = FALSE
  /\ timeouts = <<>>
  /\ sessionTimerStartedAt = <<>>
  /\ sessionTimerRemainingMs = <<>>
  /\ currentTargetWatts = 0
  /\ connectedDeviceLabel = None
  /\ connectedDeviceId = None
  /\ discoveredPeripherals = {}
  /\ discoveredDevices = [id \in Peripherals |-> <<>>]
  /\ heartRatePeripheral = None
  /\ heartRateCharacteristic = None
  /\ connectedHeartRateId = None
  /\ discovering = FALSE
  /\ adapterState = "poweredOn"
  /\ perState = [p \in Peripherals |-> "disconnected"]
  /\ listeners = [p \in Peripherals |-> 0]
  /\ heartRateListeners = [p \in Peripherals |-> 0]
  /\ now = Origin
  /\ tasks = [i \in TaskIds |-> Idle]
  /\ events = <<>>
  /\ wrote = <<>>
  /\ done = <<>>
  /\ inRange = {"p1"}
  /\ callers = MaxTasks
  /\ faulty = FALSE
  /\ aging = FALSE
  /\ call = [fn |-> None, arg |-> <<>>]
  /\ outcome = <<>>
  /\ budget = MaxCalls + 1

NextNudge ==
  \/ CallNudgeWatts
  \/ StopScanningDone
  \/ Advertise
  \/ ConnectDone
  \/ DiscoverDone
  \/ SubscribeDone
  \/ WriteDone

SpecNudge == InitNudge /\ [][NextNudge]_vars

\* The registry: four peripherals of the three kinds advertise, the caller
\* scans and binds devices it was told of, and the entries age by
\* StaleTickMs at a time.
InitRegistry ==
  /\ peripheral = None
  /\ controlPointCharacteristic = None
  /\ indoorBikeCharacteristic = None
  /\ statusCharacteristic = None
  /\ isControlling = FALSE
  /\ isRunning = FALSE
  /\ isPaused = FALSE
  /\ sessionTimer = FALSE
  /\ timeouts = <<>>
  /\ sessionTimerStartedAt = <<>>
  /\ sessionTimerRemainingMs = <<>>
  /\ currentTargetWatts = 0
  /\ connectedDeviceLabel = None
  /\ connectedDeviceId = None
  /\ discoveredPeripherals = {}
  /\ discoveredDevices = [id \in Peripherals |-> <<>>]
  /\ heartRatePeripheral = None
  /\ heartRateCharacteristic = None
  /\ connectedHeartRateId = None
  /\ discovering = FALSE
  /\ adapterState = "poweredOn"
  /\ perState = [p \in Peripherals |-> "disconnected"]
  /\ listeners = [p \in Peripherals |-> 0]
  /\ heartRateListeners = [p \in Peripherals |-> 0]
  /\ now = Origin
  /\ tasks = [i \in TaskIds |-> Idle]
  /\ events = <<>>
  /\ wrote = <<>>
  /\ done = <<>>
  /\ inRange = Peripherals
  /\ callers = 1
  /\ faulty = FALSE
  /\ aging = TRUE
  /\ call = [fn |-> None, arg |-> <<>>]
  /\ outcome = <<>>
  /\ budget = MaxRegistryCalls

NextRegistry ==
  \/ CallStartDiscovery
  \/ CallStopDiscovery
  \/ CallConnectDevice
  \/ StartScanningDone
  \/ StopDiscoveryDone
  \/ Advertise
  \/ Age
  \/ ConnectDone
  \/ DiscoverDone
  \/ SubscribeDone
  \/ WriteDone
  \/ HeartRateConnectDone
  \/ HeartRateDiscoverDone
  \/ HeartRateSubscribeDone
  \/ PeripheralDisconnect

SpecRegistry == InitRegistry /\ [][NextRegistry]_vars

\* The two bindings: a trainer and a heart-rate monitor advertise, the
\* caller scans, binds and disconnects either device and runs a session.
InitHeartRate ==
  /\ peripheral = None
  /\ controlPointCharacteristic = None
  /\ indoorBikeCharacteristic = None
  /\ statusCharacteristic = None
  /\ isControlling = FALSE
  /\ isRunning = FALSE
  /\ isPaused = FALSE
  /\ sessionTimer = FALSE
  /\ timeouts = <<>>
  /\ sessionTimerStartedAt = <<>>
  /\ sessionTimerRemainingMs = <<>>
  /\ currentTargetWatts = 0
  /\ connectedDeviceLabel = None
  /\ connectedDeviceId = None
  /\ discoveredPeripherals = {}
  /\ discoveredDevices = [id \in Peripherals |-> <<>>]
  /\ heartRatePeripheral = None
  /\ heartRateCharacteristic = None
  /\ connectedHeartRateId = None
  /\ discovering = FALSE
  /\ adapterState = "poweredOn"
  /\ perState = [p \in Peripherals |-> "disconnected"]
  /\ listeners = [p \in Peripherals |-> 0]
  /\ heartRateListeners = [p \in Peripherals |-> 0]
  /\ now = Origin
  /\ tasks = [i \in TaskIds |-> Idle]
  /\ events = <<>>
  /\ wrote = <<>>
  /\ done = <<>>
  /\ inRange = {"p1", "h1"}
  /\ callers = 1
  /\ faulty = TRUE
  /\ aging = FALSE
  /\ call = [fn |-> None, arg |-> <<>>]
  /\ outcome = <<>>
  /\ budget = MaxHeartRateCalls

NextHeartRate ==
  \/ CallStartDiscovery
  \/ CallConnectDevice
  \/ CallDisconnectDevice
  \/ CallStartSession
  \/ CallPauseSession
  \/ StartScanningDone
  \/ StopDiscoveryDone
  \/ Advertise
  \/ ConnectDone
  \/ DiscoverDone
  \/ SubscribeDone
  \/ WriteDone
  \/ HeartRateConnectDone
  \/ HeartRateDiscoverDone
  \/ HeartRateSubscribeDone
  \/ HeartRateDisconnectFailed
  \/ PeripheralDisconnect
  \/ DisconnectFailed
  \/ TimerFire
  \/ Tick

SpecHeartRate == InitHeartRate /\ [][NextHeartRate]_vars

\* The caller disconnects by an identifier that is not bound.
CallDisconnectUnbound ==
  \E i \in TaskIds, deviceId \in Peripherals \ {connectedDeviceId, connectedHeartRateId} :
    Invoke(i, "disconnect", [want |-> deviceId])

\* The two bindings with a caller that disconnects by any identifier.
NextDisconnect ==
  \/ CallStartDiscovery
  \/ CallConnectDevice
  \/ CallDisconnectDevice
  \/ CallDisconnectUnbound
  \/ CallStartSession
  \/ StartScanningDone
  \/ StopDiscoveryDone
  \/ Advertise
  \/ ConnectDone
  \/ DiscoverDone
  \/ SubscribeDone
  \/ WriteDone
  \/ HeartRateConnectDone
  \/ HeartRateDiscoverDone
  \/ HeartRateSubscribeDone
  \/ PeripheralDisconnect
  \/ DisconnectFailed
  \/ TimerFire
  \/ Tick

SpecDisconnect == InitHeartRate /\ [][NextDisconnect]_vars

\* The adapter: noble starts in state 'unknown' and reports the changes of
\* state; two callers start and stop the scan meanwhile.
InitAdapter ==
  /\ peripheral = None
  /\ controlPointCharacteristic = None
  /\ indoorBikeCharacteristic = None
  /\ statusCharacteristic = None
  /\ isControlling = FALSE
  /\ isRunning = FALSE
  /\ isPaused = FALSE
  /\ sessionTimer = FALSE
  /\ timeouts = <<>>
  /\ sessionTimerStartedAt = <<>>
  /\ sessionTimerRemainingMs = <<>>
  /\ currentTargetWatts = 0
  /\ connectedDeviceLabel = None
  /\ connectedDeviceId = None
  /\ discoveredPeripherals = {}
  /\ discoveredDevices = [id \in Peripherals |-> <<>>]
  /\ heartRatePeripheral = None
  /\ heartRateCharacteristic = None
  /\ connectedHeartRateId = None
  /\ discovering = FALSE
  /\ adapterState = "unknown"
  /\ perState = [p \in Peripherals |-> "disconnected"]
  /\ listeners = [p \in Peripherals |-> 0]
  /\ heartRateListeners = [p \in Peripherals |-> 0]
  /\ now = Origin
  /\ tasks = [i \in TaskIds |-> Idle]
  /\ events = <<>>
  /\ wrote = <<>>
  /\ done = <<>>
  /\ inRange = {"p1"}
  /\ callers = 2
  /\ faulty = TRUE
  /\ aging = FALSE
  /\ call = [fn |-> None, arg |-> <<>>]
  /\ outcome = <<>>
  /\ budget = MaxAdapterCalls

NextAdapter ==
  \/ CallStartDiscovery
  \/ CallStopDiscovery
  \/ AdapterStateChange
  \/ StartScanningDone
  \/ StopDiscoveryDone
  \/ Advertise

SpecAdapter == InitAdapter /\ [][NextAdapter]_vars

\* The adapter, with callers that connect as well.
NextRetry ==
  \/ CallStartDiscovery
  \/ CallStopDiscovery
  \/ CallConnect
  \/ AdapterStateChange
  \/ StartScanningDone
  \/ StopDiscoveryDone
  \/ Advertise
  \/ ScanTimeout
  \/ StopScanningDone
  \/ TimeoutStopScanningDone
  \/ ConnectDone
  \/ DiscoverDone
  \/ SubscribeDone
  \/ WriteDone
  \/ PeripheralDisconnect

SpecRetry == InitAdapter /\ [][NextRetry]_vars

\* The scan of connect: four peripherals advertise, the caller connects with
\* an identifier and a name filter, the scan may time out.
InitScan ==
  /\ peripheral = None
  /\ controlPointCharacteristic = None
  /\ indoorBikeCharacteristic = None
  /\ statusCharacteristic = None
  /\ isControlling = FALSE
  /\ isRunning = FALSE
  /\ isPaused = FALSE
  /\ sessionTimer = FALSE
  /\ timeouts = <<>>
  /\ sessionTimerStartedAt = <<>>
  /\ sessionTimerRemainingMs = <<>>
  /\ currentTargetWatts = 0
  /\ connectedDeviceLabel = None
  /\ connectedDeviceId = None
  /\ discoveredPeripherals = {}
  /\ discoveredDevices = [id \in Peripherals |-> <<>>]
  /\ heartRatePeripheral = None
  /\ heartRateCharacteristic = None
  /\ connectedHeartRateId = None
  /\ discovering = FALSE
  /\ adapterState = "poweredOn"
  /\ perState = [p \in Peripherals |-> "disconnected"]
  /\ listeners = [p \in Peripherals |-> 0]
  /\ heartRateListeners = [p \in Peripherals |-> 0]
  /\ now = Origin
  /\ tasks = [i \in TaskIds |-> Idle]
  /\ events = <<>>
  /\ wrote = <<>>
  /\ done = <<>>
  /\ inRange = Peripherals
  /\ callers = 1
  /\ faulty = TRUE
  /\ aging = FALSE
  /\ call = [fn |-> None, arg |-> <<>>]
  /\ outcome = <<>>
  /\ budget = MaxScanCalls

NextScan ==
  \/ CallConnectFiltered
  \/ Advertise
  \/ AdvertiseLate
  \/ ScanTimeout
  \/ ScanStartFailed
  \/ StopScanningDone
  \/ TimeoutStopScanningDone
  \/ ConnectDone
  \/ DiscoverDone
  \/ SubscribeDone
  \/ WriteDone
  \/ PeripheralDisconnect

SpecScan == InitScan /\ [][NextScan]_vars

\* The decoders and the payload as functions of their argument: the
\* argument is drawn at the start and the function is applied to it once.

\* Notifications: a trainer and a heart-rate monitor are bound and a session
\* runs while the subscribed characteristics notify.

\* Calls made while the notifications arrive.
MaxNotifyCalls == 5

\* Number.prototype.toString(16): the hexadecimal digits, without leading
\* zeros.
RECURSIVE toString16(_)
toString16(n) ==
  LET digits == <<"0", "1", "2", "3", "4", "5", "6", "7",
                  "8", "9", "a", "b", "c", "d", "e", "f">>
  IN IF n < 16 THEN <<digits[n + 1]>>
     ELSE toString16(n \div 16) \o <<digits[(n % 16) + 1]>>

\* Fault: the message names the result twice.
handleControlPointNotification_resultOnly(s, data) ==
  IF Len(data) < 3 THEN s
  ELSE
  LET responseCode == readUInt8(data, 0)[1]
      requestOpcode == readUInt8(data, 1)[1]
      result == readUInt8(data, 2)[1]
  IN IF responseCode # 128 THEN s
     ELSE IF result # 1
     THEN emitStatus(s, [message |-> <<"Control point response for opcode 0x",
                                       toString16(result),
                                       " returned status 0x",
                                       toString16(result)>>,
                         connected |-> TRUE,
                         controlling |-> s.isControlling,
                         running |-> s.isRunning])
     ELSE s

handleControlPointNotification(s, data) ==
  IF Len(data) < 3 THEN s
  ELSE
  LET responseCode == readUInt8(data, 0)[1]
      requestOpcode == readUInt8(data, 1)[1]
      result == readUInt8(data, 2)[1]
  IN IF responseCode # 128 THEN s
     ELSE IF result # 1
     THEN emitStatus(s, [message |-> <<"Control point response for opcode 0x",
                                       toString16(requestOpcode),
                                       " returned status 0x",
                                       toString16(result)>>,
                         connected |-> TRUE,
                         controlling |-> s.isControlling,
                         running |-> s.isRunning])
     ELSE s

handleStatusNotification(s, data) ==
  IF Len(data) = 0 THEN s
  ELSE
  LET statusOpCode == readUInt8(data, 0)[1]
  IN IF statusOpCode = 20
     THEN emitStatus(s, [message |-> <<"Trainer acknowledged simulation parameter change">>,
                         connected |-> TRUE,
                         controlling |-> s.isControlling,
                         running |-> s.isRunning])
     ELSE s

\* this.emit('telemetry', ...) of the two telemetry handlers: r is what the
\* handler computed.
emitTelemetry(s, r) ==
  IF r.emitted = <<>> THEN s
  ELSE [s EXCEPT !.events = Append(@, [type |-> "telemetry", telemetry |-> r.emitted[1]])]

\* The notifications the characteristics send, a few of each kind: too short,
\* of another kind, successful and failed.
ControlPointBuffers ==
  {<<>>, <<128, 7>>, <<128, 7, 1>>, <<128, 5, 3>>, <<128, 0, 5>>,
   <<128, 17, 16>>, <<128, 3, 5>>, <<129, 5, 3>>}

StatusBuffers == {<<>>, <<20>>, <<1>>, <<20, 1>>}

IndoorBikeNotified == {<<>>, <<0, 0>>, <<0, 0, 100, 0>>, <<64, 0, 232, 0>>}

HeartRateNotified == {<<>>, <<0, 70>>, <<1, 70>>, <<1, 22, 1>>}

\* The link of the peripheral behind the handle ch is up.
Notifies(ch) == ch # None /\ perState[ch] = "connected"

\* The 'data' listener of the indoor bike data characteristic is called.  The
\* listener is attached in the turn that stores the handle.
IndoorBikeData ==
  \E data \in IndoorBikeNotified :
    /\ Notifies(indoorBikeCharacteristic)
    /\ Commit(emitTelemetry(State, handleIndoorBikeNotification(data)))

\* The 'data' listener of the heart-rate measurement is called.
HeartRateData ==
  \E data \in HeartRateNotified :
    /\ Notifies(heartRateCharacteristic)
    /\ Commit(emitTelemetry(State, handleHeartRateNotification(data)))

\* The 'data' listener of the control point is called: it is attached once
\* the subscription to the indoor bike data is made.
ControlPointData ==
  \E data \in ControlPointBuffers :
    /\ Notifies(controlPointCharacteristic)
    /\ \A i \in TaskIds : tasks[i].pc # "bind_subscribe_data"
    /\ Commit(handleControlPointNotification(State, data))

\* The 'data' listener of the status characteristic is called: it is
\* attached once the subscription to the control point is made.
StatusData ==
  \E data \in StatusBuffers :
    /\ Notifies(statusCharacteristic)
    /\ \A i \in TaskIds : tasks[i].pc \notin {"bind_subscribe_data", "bind_subscribe_control"}
    /\ Commit(handleStatusNotification(State, data))

InitNotify ==
  /\ peripheral = None
  /\ controlPointCharacteristic = None
  /\ indoorBikeCharacteristic = None
  /\ statusCharacteristic = None
  /\ isControlling = FALSE
  /\ isRunning = FALSE
  /\ isPaused = FALSE
  /\ sessionTimer = FALSE
  /\ timeouts = <<>>
  /\ sessionTimerStartedAt = <<>>
  /\ sessionTimerRemainingMs = <<>>
  /\ currentTargetWatts = 0
  /\ connectedDeviceLabel = None
  /\ connectedDeviceId = None
  /\ discoveredPeripherals = {}
  /\ discoveredDevices = [id \in Peripherals |-> <<>>]
  /\ heartRatePeripheral = None
  /\ heartRateCharacteristic = None
  /\ connectedHeartRateId = None
  /\ discovering = FALSE
  /\ adapterState = "poweredOn"
  /\ perState = [p \in Peripherals |-> "disconnected"]
  /\ listeners = [p \in Peripherals |-> 0]
  /\ heartRateListeners = [p \in Peripherals |-> 0]
  /\ now = Origin
  /\ tasks = [i \in TaskIds |-> Idle]
  /\ events = <<>>
  /\ wrote = <<>>
  /\ done = <<>>
  /\ inRange = {"p1", "h1"}
  /\ callers = 1
  /\ faulty = FALSE
  /\ aging = FALSE
  /\ call = [fn |-> None, arg |-> <<>>]
  /\ outcome = <<>>
  /\ budget = MaxNotifyCalls

NextNotify ==
  \/ CallStartDiscovery
  \/ CallConnectDevice
  \/ CallStartSession
  \/ CallPauseSession
  \/ StartScanningDone
  \/ StopDiscoveryDone
  \/ Advertise
  \/ ConnectDone
  \/ DiscoverDone
  \/ SubscribeDone
  \/ WriteDone
  \/ HeartRateConnectDone
  \/ HeartRateDiscoverDone
  \/ HeartRateSubscribeDone
  \/ PeripheralDisconnect
  \/ IndoorBikeData
  \/ HeartRateData
  \/ ControlPointData
  \/ StatusData

SpecNotify == InitNotify /\ [][NextNotify]_vars

\* The byte at offset k of the notifications that are generated.
Byte(k) == (k * 83 + 100) % 256

\* Indoor-bike-data notifications: every combination of the flag bits 0..12
\* before 0..MaxPayload bytes, the two shortest buffers and the buffers
\* of the examples.
IndoorBikeBuffers ==
  {<<>>, <<0>>, <<0, 0, 100, 0>>, <<64, 0, 232, 0>>, <<65, 0, 232, 0>>}
    \cup { <<flags % 256, flags \div 256>> \o [k \in 1..n |-> Byte(k + 1)] :
            flags \in 0..(2 * FTMS_FLAG_REMAINING_TIME_PRESENT - 1), n \in 0..MaxPayload }

\* Heart-rate-measurement notifications: up to three bytes.
HeartRateBuffers ==
  LET Bytes == {0, 1, 22, 23, 70, 255}
  IN {<<>>} \cup {<<a>> : a \in Bytes} \cup {<<a, b>> : a, b \in Bytes}
       \cup {<<a, b, c>> : a, b, c \in Bytes}

InitCodec ==
  /\ peripheral = None
  /\ controlPointCharacteristic = None
  /\ indoorBikeCharacteristic = None
  /\ statusCharacteristic = None
  /\ isControlling = FALSE
  /\ isRunning = FALSE
  /\ isPaused = FALSE
  /\ sessionTimer = FALSE
  /\ timeouts = <<>>
  /\ sessionTimerStartedAt = <<>>
  /\ sessionTimerRemainingMs = <<>>
  /\ currentTargetWatts = 0
  /\ connectedDeviceLabel = None
  /\ connectedDeviceId = None
  /\ discoveredPeripherals = {}
  /\ discoveredDevices = [id \in Peripherals |-> <<>>]
  /\ heartRatePeripheral = None
  /\ heartRateCharacteristic = None
  /\ connectedHeartRateId = None
  /\ discovering = FALSE
  /\ adapterState = "poweredOn"
  /\ perState = [p \in Peripherals |-> "disconnected"]
  /\ listeners = [p \in Peripherals |-> 0]
  /\ heartRateListeners = [p \in Peripherals |-> 0]
  /\ now = Origin
  /\ tasks = [i \in TaskIds |-> Idle]
  /\ events = <<>>
  /\ wrote = <<>>
  /\ done = <<>>
  /\ inRange = {}
  /\ callers = 0
  /\ faulty = FALSE
  /\ aging = FALSE
  /\ budget = 0
  /\ call \in [fn : {"handleIndoorBikeNotification"}, arg : IndoorBikeBuffers]
             \cup [fn : {"handleHeartRateNotification"}, arg : HeartRateBuffers]
             \cup [fn : {"targetPowerPayload"}, arg : 0..MaxWatts]
  /\ outcome = <<>>

\* The variables of the controller, which the codec functions leave alone.
controller ==
  << peripheral, controlPointCharacteristic, indoorBikeCharacteristic,
     statusCharacteristic, isControlling, isRunning, isPaused,
     sessionTimer, timeouts, sessionTimerStartedAt, sessionTimerRemainingMs,
     currentTargetWatts, connectedDeviceLabel, connectedDeviceId,
     discoveredPeripherals, discoveredDevices, heartRatePeripheral,
     heartRateCharacteristic, connectedHeartRateId, discovering,
     adapterState, perState, listeners, heartRateListeners, now, tasks, events, wrote, done,
     inRange, callers, faulty, aging, budget >>

IndoorBikeNotification ==
  /\ outcome = <<>>
  /\ call.fn = "handleIndoorBikeNotification"
  /\ outcome' = <<handleIndoorBikeNotification(call.arg)>>
  /\ UNCHANGED << call, controller >>

HeartRateNotification ==
  /\ outcome = <<>>
  /\ call.fn = "handleHeartRateNotification"
  /\ outcome' = <<handleHeartRateNotification(call.arg)>>
  /\ UNCHANGED << call, controller >>

TargetPowerPayload ==
  /\ outcome = <<>>
  /\ call.fn = "targetPowerPayload"
  /\ outcome' = <<targetPowerPayload(Max(0, Min(call.arg, 2500)))>>
  /\ UNCHANGED << call, controller >>

NextCodec ==
  \/ IndoorBikeNotification
  \/ HeartRateNotification
  \/ TargetPowerPayload

SpecCodec == InitCodec /\ [][NextCodec]_vars

----------------------------------------------------------------------------
\* What the properties below speak of.

\* The fields of the controller that hold the binding and the session.
ctl == << peripheral, controlPointCharacteristic, indoorBikeCharacteristic,
          statusCharacteristic, isControlling, isRunning, isPaused,
          sessionTimer, sessionTimerStartedAt, sessionTimerRemainingMs,
          currentTargetWatts, connectedDeviceLabel, connectedDeviceId >>

\* This turn is the call of the public method op: no task ran op before
\* it, and after it a task runs op or op has settled.
Invoked(op) ==
  /\ \A i \in TaskIds : tasks[i].op # op
  /\ \/ \E i \in TaskIds : tasks'[i].op = op
     \/ \E k \in DOMAIN done' : done'[k].op = op

\* The status events of the last turn that report disconnection.
DisconnectReports(ev) ==
  {k \in DOMAIN ev : ev[k].type = "status" /\ ~ev[k].connected}

\* The target a request of watts half watts is to be clamped to: the whole
\* number of watts in [0, 2500] next to it.
ClampedTarget(watts) ==
  IF watts <= 0 THEN 0
  ELSE IF watts >= 5000 THEN 5000
  ELSE watts + (watts % 2)

----------------------------------------------------------------------------
\* C1: in every reachable state the controlling flag is true only if a control
\* device is bound.
C1_ControllingOnlyWhileBound == isControlling => peripheral # None

\* C2: in every reachable state the stored target power is a whole number of
\* watts in [0, 2500], whatever targets and nudges were requested.
C2_TargetInRange ==
  /\ currentTargetWatts % 2 = 0
  /\ 0 <= currentTargetWatts
  /\ currentTargetWatts <= 5000

\* A nudge that asked for more than 2500 W has settled and the stored target
\* is 2500 W.
C2_Witness ==
  \E k \in DOMAIN done :
    /\ done[k].op = "nudgeWatts"
    /\ done[k].ok
    /\ done[k].watts > 5000
    /\ done[k].ret = <<5000>>
    /\ currentTargetWatts = 5000

\* C3: the turn in which the bound control device disconnects clears the
\* bound peripheral, the three channel handles, controlling, running, paused,
\* the remaining auto-stop duration and the bound id and label, cancels the
\* auto-stop timer, and issues no stop-or-pause write.
C3_DisconnectTeardown ==
  [][(/\ peripheral # None
      /\ perState[peripheral] = "connected"
      /\ perState'[peripheral] = "disconnected")
     => /\ peripheral' = None
        /\ controlPointCharacteristic' = None
        /\ indoorBikeCharacteristic' = None
        /\ statusCharacteristic' = None
        /\ ~isControlling'
        /\ ~isRunning'
        /\ ~isPaused'
        /\ sessionTimerRemainingMs' = <<>>
        /\ ~sessionTimer'
        /\ sessionTimerStartedAt' = <<>>
        /\ connectedDeviceId' = None
        /\ connectedDeviceLabel' = None
        /\ \A k \in DOMAIN wrote' : wrote'[k].buf # <<FTMS_STOP_PAUSE>>]_vars

\* The device disconnected while pauseSession, called on a running session,
\* was suspended at its write; the disconnection was reported with the label
\* and nothing is bound.
C3_Witness ==
  /\ peripheral = None
  /\ ~isRunning
  /\ ~sessionTimer
  /\ \E i \in TaskIds : tasks[i].op = "pauseSession" /\ tasks[i].pc = "write_wait"
  /\ \E k \in DOMAIN events :
       /\ events[k].type = "status"
       /\ events[k].message = <<"Trainer disconnected", "Trainer 1">>

\* C4: a disconnect of the bound control device while the session is running
\* produces exactly one status event reporting disconnection; the event has
\* controlling, running and paused false and its message carries the label
\* the device had.
C4_OneDisconnectReport ==
  [][(/\ isRunning
      /\ peripheral # None
      /\ perState[peripheral] = "connected"
      /\ perState'[peripheral] = "disconnected")
     => /\ Cardinality(DisconnectReports(events')) = 1
        /\ \A k \in DisconnectReports(events') :
             /\ ~events'[k].controlling
             /\ ~events'[k].running
             /\ ~events'[k].paused
             /\ events'[k].message = <<"Trainer disconnected", connectedDeviceLabel>>]_vars

\* C5: in every reachable state running, paused and an armed auto-stop timer
\* each imply that a control device is bound (an operation suspended at a
\* write when the device disconnected sets none of them afterwards).
C5_SessionOnlyWhileBound ==
  (isRunning \/ isPaused \/ sessionTimer) => peripheral # None

\* C6: connect called while a control device is bound starts no scan, no
\* radio connect and no write, leaves the binding and the session state
\* unchanged, and returns the label of the binding.
C6_ConnectWhileBound ==
  [][(Invoked("connect") /\ peripheral # None)
     => /\ UNCHANGED ctl
        /\ UNCHANGED << discovering, discoveredPeripherals, perState, listeners, tasks >>
        /\ wrote' = <<>>
        /\ Len(done') = 1
        /\ done'[1].op = "connect"
        /\ done'[1].ok
        /\ done'[1].ret = <<connectedDeviceLabel>>]_vars

\* connect returned the label of the binding while a session runs on it.
C6_Witness ==
  /\ peripheral = "p1"
  /\ isControlling
  /\ isRunning
  /\ \E k \in DOMAIN done :
       done[k].op = "connect" /\ done[k].ok /\ done[k].ret = <<"Trainer 1">>
  /\ \E k \in DOMAIN events :
       events[k].type = "status" /\ events[k].message = <<"Trainer already connected">>

\* A bind has completed on the peripheral the controller holds.
Bound ==
  /\ peripheral # None
  /\ perState[peripheral] = "connected"
  /\ controlPointCharacteristic = peripheral
  /\ indoorBikeCharacteristic = peripheral
  /\ isControlling

\* C7: when connect calls overlap, the first bind that completes wins: while
\* its device stays connected the bound peripheral and its id stay, and the
\* channel handles stay handles of that peripheral.
C7_FirstBindWins ==
  [][(Bound /\ perState'[peripheral] = "connected")
     => /\ peripheral' = peripheral
        /\ connectedDeviceId' = connectedDeviceId
        /\ controlPointCharacteristic' = peripheral
        /\ indoorBikeCharacteristic' = peripheral
        /\ statusCharacteristic' \in {None, peripheral}]_vars

\* C8: a connect whose bind fails leaves no control device bound: no bound
\* peripheral, id or label, no device flagged connected in the device list,
\* and the peripheral left disconnected.
C8_FailedBindLeavesNothing ==
  \A k \in DOMAIN done :
    (done[k].op = "connect" /\ ~done[k].ok)
    => /\ peripheral = None
       /\ connectedDeviceId = None
       /\ connectedDeviceLabel = None
       /\ \A p \in Peripherals : perState[p] = "disconnected"
       /\ \A e \in DOMAIN events :
            events[e].type = "devices" => events[e].connected = {}

\* C9: pauseSession called on a paused session and resumeSession called on a
\* running session change no controller state, issue no write and emit no
\* status event.
C9_PauseResumeIdempotent ==
  [][(\/ Invoked("pauseSession") /\ isPaused
      \/ Invoked("resumeSession") /\ isRunning)
     => /\ UNCHANGED ctl
        /\ wrote' = <<>>
        /\ events' = <<>>]_vars

\* pauseSession, called on a paused session of a bound device, has returned
\* without a write.
C9_Witness ==
  /\ isPaused
  /\ peripheral # None
  /\ controlPointCharacteristic # None
  /\ \E k \in DOMAIN done :
       done[k].op = "pauseSession" /\ done[k].ok /\ done[k].log = <<>>

\* C10: a startSession that completes has written request-control (each
\* time only if control was not held), then set-target-power with the
\* clamped target, then start-or-resume; it ends running, not paused, with
\* the auto-stop timer armed for the duration exactly when a duration greater
\* than 0 was given.
C10_StartSession ==
  /\ \A k \in DOMAIN done :
       (done[k].op = "startSession" /\ done[k].ok)
       => LET log == done[k].log
              n == Len(log)
              durationSeconds == done[k].dur
          IN /\ n >= 2
             /\ \A j \in 1..(n - 2) : log[j] = <<FTMS_REQUEST_CONTROL>>
             /\ log[n - 1] = <<FTMS_SET_TARGET_POWER, ClampedTarget(done[k].watts)>>
             /\ log[n] = <<FTMS_START_RESUME>>
             /\ isRunning
             /\ ~isPaused
             /\ sessionTimer <=> (durationSeconds # <<>> /\ durationSeconds[1] > 0)
             /\ sessionTimer =>
                  /\ sessionTimerRemainingMs = <<durationSeconds[1] * 1000>>
                  /\ sessionTimerStartedAt = <<now>>
  /\ \A k \in DOMAIN wrote :
       (wrote[k].op = "startSession" /\ wrote[k].at = "requestControl_written")
       => ~wrote[k].controlling

\* startSession(100.5 W, 1 s) has completed with the writes request-control,
\* set-target-power 101 W, start-or-resume, and the timer is armed.
C10_Witness ==
  /\ sessionTimer
  /\ \E k \in DOMAIN done :
       /\ done[k].op = "startSession"
       /\ done[k].ok
       /\ done[k].dur = <<1>>
       /\ done[k].log = << <<FTMS_REQUEST_CONTROL>>,
                           <<FTMS_SET_TARGET_POWER, 202>>,
                           <<FTMS_START_RESUME>> >>

\* The method op, suspended at its write, settles in this turn as resolved.
Completes(op) ==
  /\ \E i \in TaskIds : tasks[i].op = op /\ tasks[i].pc = "write_wait"
  /\ \E k \in DOMAIN done' : done'[k].op = op /\ done'[k].ok

\* The stop-or-pause writes among the writes w.
StopWrites(w) == {k \in DOMAIN w : w[k].buf = <<FTMS_STOP_PAUSE>>}

\* C11: pauseSession called on a running session issues one stop-or-pause
\* write; when the write has succeeded it sets running false and paused true,
\* cancels the auto-stop timer and records as remaining duration
\* max(0, armed duration - time since the timer was armed); called on a
\* session that is not running it does nothing.
C11_Pause ==
  [][/\ (Invoked("pauseSession") /\ isRunning)
        => /\ Len(wrote') = 1
           /\ wrote'[1].op = "pauseSession"
           /\ wrote'[1].buf = <<FTMS_STOP_PAUSE>>
     /\ (Invoked("pauseSession") /\ ~isRunning)
        => /\ UNCHANGED ctl
           /\ wrote' = <<>>
           /\ events' = <<>>
     /\ Completes("pauseSession")
        => /\ ~isRunning'
           /\ isPaused'
           /\ ~sessionTimer'
           /\ sessionTimerStartedAt' = <<>>
           /\ sessionTimerRemainingMs' =
                IF sessionTimer
                THEN <<Max(0, sessionTimerRemainingMs[1] - (now - sessionTimerStartedAt[1]))>>
                ELSE sessionTimerRemainingMs
           /\ wrote' = <<>>]_vars

\* C12: when resumeSession completes on a paused session with a recorded
\* remaining duration, the session is running with the auto-stop timer
\* armed, now, for exactly that remaining duration.
C12_ResumeRearms ==
  [][(Completes("resumeSession") /\ isPaused /\ sessionTimerRemainingMs # <<>>)
     => /\ isRunning'
        /\ ~isPaused'
        /\ sessionTimer'
        /\ sessionTimerRemainingMs' = sessionTimerRemainingMs
        /\ sessionTimerStartedAt' = <<now>>]_vars

\* C13: stopSession called on a running or paused session issues one
\* stop-or-pause write; when it completes the session is neither running nor
\* paused, no auto-stop timer is armed and no remaining duration is recorded;
\* a resumeSession completing with no remaining duration recorded arms no
\* timer; and startSession called on the stopped session of a bound device
\* goes on to its set-target-power write.
C13_Stop ==
  [][/\ (Invoked("stopSession") /\ (isRunning \/ isPaused))
        => /\ Len(wrote') = 1
           /\ wrote'[1].op = "stopSession"
           /\ StopWrites(wrote') = {1}
     /\ Completes("stopSession")
        => /\ ~isRunning'
           /\ ~isPaused'
           /\ ~sessionTimer'
           /\ sessionTimerStartedAt' = <<>>
           /\ sessionTimerRemainingMs' = <<>>
           /\ wrote' = <<>>
     /\ (Completes("resumeSession") /\ sessionTimerRemainingMs = <<>>)
        => /\ ~sessionTimer'
           /\ sessionTimerRemainingMs' = <<>>
     /\ (Invoked("startSession") /\ Bound /\ ~isRunning /\ ~isPaused)
        => /\ Len(wrote') = 1
           /\ wrote'[1].op = "startSession"
           /\ wrote'[1].buf[1] = FTMS_SET_TARGET_POWER]_vars

\* The task op settles in this turn, resolved or rejected.
Settles(op) == \E k \in DOMAIN done' : done'[k].op = op

\* The status events among ev that report a stopped session.
StoppedReports(ev) ==
  {k \in DOMAIN ev : /\ ev[k].type = "status"
                     /\ ev[k].message = <<"ERG session stopped">>
                     /\ ~ev[k].running
                     /\ ~ev[k].paused}

\* C14: the auto-stop timer of a session, once its duration has elapsed,
\* takes the session out of running with no stopSession call: the turn in
\* which it fires issues one stop-or-pause write, and when the stop it
\* started settles the session is neither running nor paused, no timer is
\* armed, no remaining duration is recorded and one status event reports
\* the session stopped.
C14_AutoStop ==
  [][/\ Invoked("timer")
        => /\ now >= sessionTimerStartedAt[1] + sessionTimerRemainingMs[1]
           /\ Len(wrote') = 1
           /\ wrote'[1].op = "timer"
           /\ StopWrites(wrote') = {1}
     /\ Settles("timer")
        => /\ ~isRunning'
           /\ ~isPaused'
           /\ ~sessionTimer'
           /\ sessionTimerStartedAt' = <<>>
           /\ sessionTimerRemainingMs' = <<>>
           /\ Cardinality(StoppedReports(events')) = 1]_vars

\* The timeout callbacks started and not settled before this turn.
TimerTasks == {i \in TaskIds : tasks[i].op = "timer"}

\* A timeout callback runs in this turn.
Fires ==
  Cardinality({i \in TaskIds : tasks'[i].op = "timer"})
    + Cardinality({k \in DOMAIN done' : done'[k].op = "timer"})
  > Cardinality(TimerTasks)

\* C15: at most one auto-stop timeout is armed at any time, and it is the
\* one the controller holds, due at the recorded start plus the recorded
\* remaining duration (arming cancels the timeout held before); a timeout
\* that runs is the one held and due, so a cancelled timeout never runs.
C15_OneTimer ==
  /\ [](/\ Len(timeouts) <= 1
        /\ sessionTimer <=> timeouts # <<>>
        /\ sessionTimer =>
             timeouts = <<sessionTimerStartedAt[1] + sessionTimerRemainingMs[1]>>)
  /\ [][Fires => /\ sessionTimer
                 /\ now >= sessionTimerStartedAt[1] + sessionTimerRemainingMs[1]
                 /\ timeouts' = <<>>
                 /\ ~sessionTimer']_vars

\* startSession completed half a second or more after an earlier timer was
\* armed and not yet run (the clock has advanced), and armed its own timer:
\* only the new timeout is armed.
C15_Witness ==
  /\ now > Origin
  /\ sessionTimer
  /\ sessionTimerStartedAt = <<now>>
  /\ timeouts = <<now + sessionTimerRemainingMs[1]>>
  /\ \E k \in DOMAIN done : done[k].op = "startSession" /\ done[k].ok

\* The public methods that command the session.
SessionMethods ==
  {"setTargetWatts", "nudgeWatts", "startSession", "resumeSession",
   "pauseSession", "stopSession"}

\* The opcodes that command the trainer once control is held.
ControlledCommands == {FTMS_SET_TARGET_POWER, FTMS_START_RESUME, FTMS_STOP_PAUSE}

\* The session methods that wrote a command among the writes w.
Commanders(w) ==
  {w[k].op : k \in {j \in DOMAIN w : /\ w[j].op \in SessionMethods
                                     /\ w[j].buf[1] \in ControlledCommands}}

\* C16: every set-target-power, start-or-resume and stop-or-pause write
\* issued by setTargetWatts, nudgeWatts, startSession, resumeSession,
\* pauseSession or stopSession is issued while controlling is true; when
\* controlling was false before the turn of the write, that turn is the
\* acknowledgement of a request-control write of the same method.
C16_CommandsWhileControlling ==
  /\ [](\A k \in DOMAIN wrote :
          (wrote[k].op \in SessionMethods /\ wrote[k].buf[1] \in ControlledCommands)
          => wrote[k].controlling)
  /\ [][\A m \in Commanders(wrote') :
          ~isControlling
          => \E i \in TaskIds : /\ tasks[i].op = m
                                /\ tasks[i].pc = "write_wait"
                                /\ tasks[i].buf = <<FTMS_REQUEST_CONTROL>>]_vars

\* The target-watts events among ev.
TargetReports(ev) == {k \in DOMAIN ev : ev[k].type = "target-watts"}

\* The method of task i, suspended at the write of its target, completes in
\* this turn: the write carried clamped, clamped is stored and one
\* target-watts event carries it.
StoresTarget(i, clamped) ==
  /\ tasks[i].buf = <<FTMS_SET_TARGET_POWER, clamped>>
  /\ currentTargetWatts' = clamped
  /\ Cardinality(TargetReports(events')) = 1
  /\ \A k \in TargetReports(events') : events'[k].watts = clamped
  /\ wrote' = <<>>

\* C17: a setTargetWatts(w) that completes has written a set-target-power
\* payload carrying w clamped to a whole number of watts in [0, 2500],
\* stores exactly that and emits one target-watts event with it; a
\* nudgeWatts(d) that completes stores the clamped sum of the stored target
\* and d, and returns the stored value.
C17_TargetStored ==
  [][\A i \in TaskIds :
       /\ (tasks[i].op = "setTargetWatts" /\ Completes("setTargetWatts"))
          => StoresTarget(i, ClampedTarget(tasks[i].watts))
       /\ (tasks[i].op = "nudgeWatts" /\ Completes("nudgeWatts"))
          => /\ StoresTarget(i,
                             ClampedTarget(currentTargetWatts + tasks[i].delta))
             /\ \A k \in DOMAIN done' :
                  done'[k].op = "nudgeWatts" => done'[k].ret = <<currentTargetWatts'>>]_vars

\* A nudge down from 2500 W by 2399.5 W has completed: 100.5 W rounds to the
\* 101 W that is stored, reported and returned.
C17_Witness ==
  /\ currentTargetWatts = 202
  /\ \E k \in DOMAIN done :
       /\ done[k].op = "nudgeWatts"
       /\ done[k].ok
       /\ done[k].delta = -4799
       /\ done[k].watts = 201
       /\ done[k].ret = <<202>>
  /\ \E k \in DOMAIN events :
       events[k].type = "target-watts" /\ events[k].watts = 202

\* The nudgeWatts call of task i, suspended at its write, completes in this
\* turn.
NudgeCompletes(i) ==
  /\ tasks[i].op = "nudgeWatts"
  /\ tasks[i].pc = "write_wait"
  /\ \E k \in DOMAIN done' : /\ done'[k].op = "nudgeWatts"
                             /\ done'[k].ok
                             /\ done'[k].delta = tasks[i].delta
                             /\ done'[k].watts = tasks[i].watts

\* C18: nudgeWatts calls that overlap do not interleave: they take effect
\* one after the other, each storing the clamped sum of the target stored
\* before it and its delta (so two nudges d1, d2 from T end at
\* clamp(clamp(T + d1) + d2)), and each returns the value it stored.
C18_NudgesSerial ==
  [][\A i \in TaskIds :
       NudgeCompletes(i)
       => /\ currentTargetWatts' = ClampedTarget(currentTargetWatts + tasks[i].delta)
          /\ \A k \in DOMAIN done' :
               done'[k].op = "nudgeWatts" => done'[k].ret = <<currentTargetWatts'>>]_vars

\* The writes of a shutdown in their order: stop-or-pause, reset, and the
\* stop-or-pause of the stopSession that disconnect makes.
ShutdownWrites == << <<FTMS_STOP_PAUSE>>, <<FTMS_RESET>>, <<FTMS_STOP_PAUSE>> >>

C20_ShutdownReleasesAll ==
  \A k \in DOMAIN done :
    (done[k].op = "shutdown" /\ done[k].ok)
    => /\ peripheral = None
       /\ controlPointCharacteristic = None
       /\ indoorBikeCharacteristic = None
       /\ statusCharacteristic = None
       /\ connectedDeviceId = None
       /\ connectedDeviceLabel = None
       /\ ~isRunning
       /\ ~isPaused
       /\ ~isControlling
       /\ ~sessionTimer
       /\ timeouts = <<>>
       /\ sessionTimerRemainingMs = <<>>
       /\ ~discovering
       /\ discoveredPeripherals = {}

----------------------------------------------------------------------------
\* The device lists among the events ev, and the identifiers a list holds.
DeviceLists(ev) == {k \in DOMAIN ev : ev[k].type = "devices"}
Listed(list) == {list[j].id : j \in DOMAIN list}

\* Identifier id is bound, as control device or as heart-rate device, before
\* and after the turn.
StaysBound(id) ==
  \/ connectedDeviceId = id /\ connectedDeviceId' = id
  \/ connectedHeartRateId = id /\ connectedHeartRateId' = id

\* C21: every emitted device list holds no unbound device whose last
\* advertisement is more than 15 s old, a device whose last advertisement is
\* at most 15 s old (exactly 15 s included) is listed by every list emitted
\* in a turn that neither begins a scan nor shuts down, and a registered
\* device that is bound as control or heart-rate device is listed whatever
\* its age.
C21_DeviceListAges ==
  /\ [](\A k \in DeviceLists(events) : \A j \in DOMAIN events[k].devices :
          ~events[k].devices[j].connected
          => now - events[k].devices[j].lastSeen <= DEVICE_STALE_MS)
  /\ [][\A id \in Peripherals :
          (/\ discoveredDevices[id] # <<>>
           /\ \/ StaysBound(id)
              \/ /\ now - discoveredDevices[id][1] <= DEVICE_STALE_MS
                 /\ ~Invoked("startDiscovery")
                 /\ ~Invoked("shutdown"))
          => \A k \in DeviceLists(events') : id \in Listed(events'[k].devices)]_vars

\* A list holds an unbound device last seen exactly 15 s ago and a bound one
\* last seen longer ago.
C21_Witness ==
  \E k \in DeviceLists(events) : \E i, j \in DOMAIN events[k].devices :
    /\ ~events[k].devices[i].connected
    /\ now - events[k].devices[i].lastSeen = DEVICE_STALE_MS
    /\ events[k].devices[j].connected
    /\ now - events[k].devices[j].lastSeen > DEVICE_STALE_MS

\* C22: the turn in which startDiscovery is called (what the call deletes it
\* deletes in that turn, before any new advertisement is handled) leaves in
\* the registry only the devices bound as control or heart-rate device,
\* whether or not a scan was already in progress.
C22_ScanStartsClean ==
  [][Invoked("startDiscovery")
     => \A id \in Peripherals :
          discoveredDevices'[id] # <<>>
          => id \in {connectedDeviceId', connectedHeartRateId'}]_vars

\* C23: in every emitted device list no unbound device precedes a bound one;
\* among the unbound devices no heart-rate or unknown device precedes a
\* trainer and no unknown device precedes a heart-rate device; devices of
\* equal bound status and equal kind are in the order of their labels.
C23_DeviceListOrder ==
  \A k \in DeviceLists(events) :
    LET list == events[k].devices IN
    \A i, j \in DOMAIN list :
      i < j =>
        /\ ~(~list[i].connected /\ list[j].connected)
        /\ (~list[i].connected /\ ~list[j].connected)
           => /\ ~(list[i].kind # "trainer" /\ list[j].kind = "trainer")
              /\ ~(list[i].kind = "unknown" /\ list[j].kind = "heart-rate")
        /\ (list[i].connected = list[j].connected /\ list[i].kind = list[j].kind)
           => localeCompare(list[i].label, list[j].label) <= 0

\* A list with the bound heart-rate monitor before two unbound trainers and
\* the device of unknown kind.
C23_Witness ==
  \E k \in DeviceLists(events) :
    /\ Len(events[k].devices) = 4
    /\ events[k].devices[1].kind = "heart-rate"
    /\ events[k].devices[1].connected
    /\ \A j \in 2..4 : ~events[k].devices[j].connected

\* The state of the control device: its binding, channel handles, session
\* flags, target and auto-stop timer; and the heart-rate binding.
controlDevice == << peripheral, controlPointCharacteristic, indoorBikeCharacteristic,
                    statusCharacteristic, connectedDeviceId, connectedDeviceLabel,
                    isControlling, isRunning, isPaused, currentTargetWatts,
                    sessionTimer, timeouts, sessionTimerStartedAt,
                    sessionTimerRemainingMs >>
heartRateDevice == << heartRatePeripheral, heartRateCharacteristic, connectedHeartRateId >>

\* A turn of the heart-rate path: connect or disconnect called for a
\* heart-rate device, a step of bindHeartRatePeripheral, or the end of the
\* link of the bound heart-rate monitor.
HeartRateTurn ==
  \/ \E i \in TaskIds, deviceId \in discoveredPeripherals :
       /\ resolveDeviceKind(State, deviceId, None) = "heart-rate"
       /\ Invoke(i, "connect", [want |-> deviceId])
  \/ \E i \in TaskIds :
       /\ connectedHeartRateId # None
       /\ Invoke(i, "disconnect", [want |-> connectedHeartRateId])
  \/ HeartRateConnectDone
  \/ HeartRateDiscoverDone
  \/ HeartRateSubscribeDone
  \/ HeartRateDisconnectFailed
  \/ \E p \in Peripherals :
       /\ p # peripheral
       /\ p = heartRatePeripheral \/ \E i \in TaskIds : tasks[i].pc = "heartRate_disconnect"
                                                        /\ tasks[i].per = p
       /\ LinkEnds(p)

----------------------------------------------------------------------------
\* The outcome of the codec function fn, once it has been applied.
Applied(fn) == call.fn = fn /\ outcome # <<>>

\* C25: whatever the flags and the length of an indoor-bike-data buffer, the
\* decoder raises no error, and a buffer that holds the flags gets a sample
\* emitted.
C25_TruncationTolerated ==
  Applied("handleIndoorBikeNotification")
  => /\ ~outcome[1].raised
     /\ Len(call.arg) >= 2 => Len(outcome[1].emitted) = 1

\* The layout of indoor-bike-data the claims state: the widths of the fields
\* that the flag bits 0..12 announce (bit 0 announces the speed when clear).
FieldWidths == <<2, 2, 2, 2, 3, 2, 2, 2, 5, 1, 1, 2, 2>>
RECURSIVE Power2(_)
Power2(b) == IF b = 0 THEN 1 ELSE 2 * Power2(b - 1)
FlagsOf(data) == data[1] + 256 * data[2]
Announced(data, b) ==
  IF b = 0 THEN (FlagsOf(data) % 2) = 0
  ELSE (FlagsOf(data) \div Power2(b)) % 2 = 1
RECURSIVE OffsetOf(_, _)
OffsetOf(data, b) ==
  IF b = 0 THEN 2
  ELSE OffsetOf(data, b - 1) + (IF Announced(data, b - 1) THEN FieldWidths[b] ELSE 0)
WellFormed(data) == Len(data) >= 2 /\ Len(data) = OffsetOf(data, 13)
Unsigned16(data, o) == data[o + 1] + 256 * data[o + 2]
Signed16(data, o) ==
  IF data[o + 2] >= 128 THEN Unsigned16(data, o) - 65536 ELSE Unsigned16(data, o)

\* C26: for a well-formed indoor-bike-data buffer one sample is emitted; it
\* has the speed (unsigned 16 bits, hundredths) exactly when bit 0 is clear,
\* the cadence (unsigned 16 bits, halves) exactly when bit 2 is set, the power
\* (signed 16 bits) exactly when bit 6 is set and the heart rate (one byte)
\* exactly when bit 9 is set, each little-endian at the offset after the
\* announced fields before it; a field not announced is absent; and
\* [0x00, 0x00, 0x64, 0x00] gives the speed 1.00 km/h and nothing else.
C26_FieldsDecoded ==
  (Applied("handleIndoorBikeNotification") /\ WellFormed(call.arg))
  => LET data == call.arg IN
     /\ ~outcome[1].raised
     /\ Len(outcome[1].emitted) = 1
     /\ outcome[1].emitted[1] =
          [speedKph |-> IF Announced(data, 0)
                        THEN <<Ratio(Unsigned16(data, OffsetOf(data, 0)), 100)>> ELSE <<>>,
           cadenceRpm |-> IF Announced(data, 2)
                          THEN <<Ratio(Unsigned16(data, OffsetOf(data, 2)), 2)>> ELSE <<>>,
           powerWatts |-> IF Announced(data, 6)
                          THEN <<Signed16(data, OffsetOf(data, 6))>> ELSE <<>>,
           heartRateBpm |-> IF Announced(data, 9)
                            THEN <<data[OffsetOf(data, 9) + 1]>> ELSE <<>>]
     /\ data = <<0, 0, 100, 0>>
        => outcome[1].emitted[1] =
             [speedKph |-> <<Ratio(100, 100)>>, cadenceRpm |-> <<>>,
              powerWatts |-> <<>>, heartRateBpm |-> <<>>]

\* A well-formed buffer with every optional field gave the four values, the
\* power a negative one.
C26_Witness ==
  /\ Applied("handleIndoorBikeNotification")
  /\ WellFormed(call.arg)
  /\ Len(call.arg) = 2 + MaxPayload
  /\ outcome[1].emitted # <<>>
  /\ outcome[1].emitted[1].speedKph # <<>>
  /\ outcome[1].emitted[1].cadenceRpm # <<>>
  /\ outcome[1].emitted[1].heartRateBpm # <<>>
  /\ outcome[1].emitted[1].powerWatts # <<>>
  /\ outcome[1].emitted[1].powerWatts[1] < 0

C28_HeartRateDecoded ==
  Applied("handleHeartRateNotification")
  => LET data == call.arg
         wide == Len(data) >= 1 /\ data[1] % 2 = 1
         width == IF wide THEN 2 ELSE 1
     IN /\ ~outcome[1].raised
        /\ outcome[1].emitted =
             IF Len(data) < 1 + width THEN <<>>
             ELSE IF wide THEN << [heartRateBpm |-> <<data[2] + 256 * data[3]>>] >>
             ELSE << [heartRateBpm |-> <<data[2]>>] >>
        /\ data \in {<<0, 70>>, <<1, 70, 0>>}
           => outcome[1].emitted = << [heartRateBpm |-> <<70>>] >>

\* The 16-bit example was decoded.
C28_Witness ==
  /\ Applied("handleHeartRateNotification")
  /\ call.arg = <<1, 70, 0>>
  /\ outcome[1].emitted = << [heartRateBpm |-> <<70>>] >>

\* C29: for every whole number of watts in 0..2500 the set-target-power
\* payload is three bytes, the opcode 0x05 and then the watts as a signed
\* 16-bit little-endian number, and reading bytes 1..2 back as a signed
\* 16-bit little-endian number gives the watts.
C29_PayloadRoundTrip ==
  (Applied("targetPowerPayload") /\ call.arg \in 0..2500)
  => LET payload == outcome[1] IN
     /\ Len(payload) = 3
     /\ \A k \in 1..3 : payload[k] \in 0..255
     /\ payload[1] = 5
     /\ payload[2] = call.arg % 256
     /\ payload[3] = call.arg \div 256
     /\ Signed16(payload, 1) = call.arg

\* The payload of the largest target: 2500 = 0x09C4.
C29_Witness ==
  /\ Applied("targetPowerPayload")
  /\ call.arg = 2500
  /\ outcome[1] = <<5, 196, 9>>

\* The calls of startDiscovery among the tasks t that wait for the adapter.
AdapterWaiters(t) ==
  {i \in TaskIds : t[i].op = "startDiscovery" /\ t[i].pc = "startDiscovery_adapter"}

\* The tasks among t with a call of noble.startScanningAsync outstanding.
ScansPending(t) == {i \in TaskIds : t[i].pc = "startDiscovery_wait"}

\* The status events among ev that report scanning.
ScanningReports(ev) == {k \in DOMAIN ev : ev[k].type = "status" /\ ev[k].scanning}

\* The calls of startDiscovery that d records as failed.
FailedDiscoveries(d) == {k \in DOMAIN d : d[k].op = "startDiscovery" /\ ~d[k].ok}

\* This turn is a call of startDiscovery.
StartDiscoveryCalled ==
  /\ budget' # budget
  /\ \/ Settles("startDiscovery")
     \/ Cardinality({i \in TaskIds : tasks'[i].op = "startDiscovery"})
          > Cardinality({i \in TaskIds : tasks[i].op = "startDiscovery"})

\* C30: a turn that leaves the adapter in a state other than powered on
\* starts no scan, does not set the discovering flag, and reports scanning
\* only as the outcome of a scan started before; a call of startDiscovery made
\* while the adapter is not powered on and no scan is in progress waits.
\* When the adapter signals powered on every waiting call starts a scan and
\* the flag is set; when it signals unsupported or unauthorized every
\* waiting call fails, no scan is started, the flag stays false and no
\* scanning is reported.
C30_ScanDeferred ==
  [][/\ adapterState' # "poweredOn"
        => /\ Cardinality(ScansPending(tasks')) <= Cardinality(ScansPending(tasks))
           /\ discovering' => discovering
           /\ ScanningReports(events') # {}
                => Cardinality(ScansPending(tasks')) < Cardinality(ScansPending(tasks))
     /\ (StartDiscoveryCalled /\ adapterState # "poweredOn" /\ ~discovering)
        => /\ Cardinality(AdapterWaiters(tasks'))
                = Cardinality(AdapterWaiters(tasks)) + 1
           /\ ~Settles("startDiscovery")
     /\ (AdapterWaiters(tasks) # {} /\ adapterState # "poweredOn"
           /\ adapterState' = "poweredOn")
        => /\ AdapterWaiters(tasks') = {}
           /\ Cardinality(ScansPending(tasks'))
                >= Cardinality(ScansPending(tasks)) + Cardinality(AdapterWaiters(tasks))
           /\ discovering'
           /\ ~Settles("startDiscovery")
     /\ (AdapterWaiters(tasks) # {} /\ adapterState' # adapterState
           /\ adapterState' \in {"unsupported", "unauthorized"})
        => /\ AdapterWaiters(tasks') = {}
           /\ Cardinality(FailedDiscoveries(done')) = Cardinality(AdapterWaiters(tasks))
           /\ Cardinality(ScansPending(tasks')) = Cardinality(ScansPending(tasks))
           /\ ~discovering'
           /\ ScanningReports(events') = {}]_vars

\* The adapter has signalled powered on to two listeners, each of which began
\* a scan in that turn: the listener of a call that had failed when the
\* adapter signalled unsupported or unauthorized, and that of a call that was
\* waiting.
C30_Witness ==
  /\ adapterState = "poweredOn"
  /\ discovering
  /\ tasks[1].op = "handleState" /\ tasks[1].pc = "startDiscovery_wait"
  /\ tasks[2].op = "startDiscovery" /\ tasks[2].pc = "startDiscovery_wait"
  /\ Len(events) = 2
  /\ done = <<>>

\* C36: in every reachable state running and paused are not both true.
C36_RunningExcludesPaused == ~(isRunning /\ isPaused)

\* pauseSession has just resolved on a bound device: the session is paused
\* and does not run.
C36_Witness ==
  /\ isPaused /\ ~isRunning
  /\ peripheral # None
  /\ \E k \in DOMAIN done : done[k].op = "pauseSession" /\ done[k].ok

ResumeWrites(w) ==
  {k \in DOMAIN w : w[k].op = "resumeSession" /\ w[k].buf = <<FTMS_START_RESUME>>}

\* C39: running is entered only by startSession or by resumeSession from the
\* paused state: a turn that sets running is the completion of startSession
\* or of a resumeSession on a paused session, and the turn in which
\* resumeSession is called on a session that neither runs nor is paused
\* issues no start-or-resume write.
C39_ResumeOnlyFromPaused ==
  [][/\ (~isRunning /\ isRunning')
        => \E k \in DOMAIN done' :
             /\ done'[k].ok
             /\ \/ done'[k].op = "startSession"
                \/ done'[k].op = "resumeSession" /\ isPaused
     /\ (Invoked("resumeSession") /\ ~isRunning /\ ~isPaused)
        => ResumeWrites(wrote') = {}]_vars

\* C39, the part that holds: running is set only by the completion of
\* startSession or of resumeSession, whatever the session was before.
C39_RunningSetBySessionCalls ==
  [][(~isRunning /\ isRunning')
       => \E k \in DOMAIN done' :
            done'[k].ok /\ done'[k].op \in {"startSession", "resumeSession"}]_vars

\* The calls that wait for the adapter among the tasks t.
AdapterCalls(t) ==
  {i \in TaskIds : t[i].pc \in AdapterLabels /\ t[i].op # "handleState"}

\* The tasks among t that scan: a call of noble.startScanningAsync is
\* outstanding or the discover listener of scanAndConnect is registered.
Scans(t) == {i \in TaskIds : t[i].pc \in {"startDiscovery_wait", "scan_wait"}}

\* C31: no operation is retried without a call.  When the adapter signals
\* powered on while no call is waiting for it, the signal starts no scan:
\* no further task scans, the discovering flag is as before and no scanning
\* is reported.  A control device is bound only by a task that runs a call.
C31_NoSilentRetry ==
  [][/\ (adapterState # "poweredOn" /\ adapterState' = "poweredOn"
           /\ AdapterCalls(tasks) = {})
        => /\ Cardinality(Scans(tasks')) = Cardinality(Scans(tasks))
           /\ discovering' = discovering
           /\ ScanningReports(events') = {}
     /\ (peripheral' # None /\ peripheral' # peripheral)
        => \E i \in TaskIds : /\ tasks'[i].pc = "bind_connect"
                              /\ tasks'[i].per = peripheral'
                              /\ tasks'[i].op # "handleState"]_vars

\* C31, the scan alone.
C31_NoSilentScan ==
  [][(adapterState # "poweredOn" /\ adapterState' = "poweredOn"
        /\ AdapterCalls(tasks) = {})
       => Cardinality(Scans(tasks')) = Cardinality(Scans(tasks))]_vars

\* C31, the bind alone.
C31_NoSilentBind ==
  [][(peripheral' # None /\ peripheral' # peripheral)
       => \E i \in TaskIds : /\ tasks'[i].pc = "bind_connect"
                             /\ tasks'[i].per = peripheral'
                             /\ tasks'[i].op # "handleState"]_vars

\* The tasks among t whose onDiscover listens for advertisements.
Scanners(t) == {i \in TaskIds : t[i].pc = "scan_wait"}

\* The tasks among t that have matched an advertisement and stop the scan.
Matched(t) == {i \in TaskIds : t[i].pc = "scan_stop"}

\* The peripherals whose advertised name contains the filter, letter case
\* apart: "Trainer 1", "Trainer 2", "Heart 1" and a peripheral without name.
NameAccepts(deviceName) ==
  CASE deviceName = <<>> -> Peripherals
    [] deviceName = <<"R", "A", "I", "N">> -> {"p1", "p2"}
    [] deviceName = <<"r", " ", "2">> -> {"p2"}
    [] OTHER -> {}

\* The peripherals a scanning connect with the options of task x may bind.
Eligible(x) ==
  {p \in {"p1", "p2"} : p \in NameAccepts(x.name) /\ (x.want = None \/ x.want = p)}

\* The failures of connect by timeout that d records.
ScanTimeouts(d) ==
  {k \in DOMAIN d : /\ d[k].op = "connect" /\ ~d[k].ok
                    /\ d[k].ret = <<"Timed out searching for FTMS trainer">>}

\* The session fields.
session == << isRunning, isPaused, isControlling, currentTargetWatts, sessionTimer,
              timeouts, sessionTimerStartedAt, sessionTimerRemainingMs >>

\* C32: a connect that scans (a) leaves the scan only for a peripheral that
\* advertises the control service and matches the name filter and the
\* identifier, (b) does so on the first such peripheral that comes to be
\* known, and (c) binds that peripheral once the scan is stopped.  (d) When
\* the timeout fires the call fails with the timeout error, the scan is being
\* stopped, no device is bound, the session fields are unchanged and nothing
\* listens for advertisements.  (e) While no call is running and none is
\* made, no device gets bound, whatever is advertised.
C32_ScanBindsFirstMatch ==
  [][/\ \A i \in Scanners(tasks) :
          /\ \A j \in Matched(tasks') \ Matched(tasks) :
               tasks'[j].per \in Eligible(tasks[i])
          /\ \A p \in (discoveredPeripherals' \ discoveredPeripherals) \cap Eligible(tasks[i]) :
               \E j \in Matched(tasks') : tasks'[j].per = p
     /\ \A i \in Matched(tasks) :
          Matched(tasks') = {} => peripheral' = tasks[i].per
     /\ (Scanners(tasks) # {} /\ ScanTimeouts(done') # {})
        => /\ peripheral' = None /\ connectedDeviceId' = None
           /\ session' = session
           /\ Scanners(tasks') = {} /\ Matched(tasks') = {}
           /\ \E i \in TaskIds : /\ tasks'[i].op = "stopScanning"
                                 /\ tasks'[i].pc = "stopScanning_wait"
     /\ (peripheral = None /\ budget' = budget
           /\ \A i \in TaskIds : tasks[i].op \in {None, "stopScanning"})
        => /\ peripheral' = None
           /\ \A i \in TaskIds : tasks'[i].op \in {None, "stopScanning"}]_vars

\* A connect with the name filter "r 2" and no identifier has matched the
\* advertisement of Trainer 2 after hearing that of Trainer 1, which the
\* filter rejects.
C32_Witness ==
  /\ \E i \in Matched(tasks) :
       /\ tasks[i].name = <<"r", " ", "2">>
       /\ tasks[i].want = None
       /\ tasks[i].per = "p2"
  /\ "p1" \in discoveredPeripherals
  /\ peripheral = None

\* The scan of a connect has timed out and, while it is being stopped, a
\* peripheral has advertised: the call has failed and nothing is bound.
C32_TimedOut ==
  /\ peripheral = None
  /\ \E i \in TaskIds : tasks[i].op = "stopScanning" /\ tasks[i].pc = "stopScanning_wait"
  /\ \A i \in TaskIds : tasks[i].op \in {None, "stopScanning"}
  /\ discoveredPeripherals = {"p1"}
  /\ done = <<>>

\* The methods C33 is about.
WritingMethods ==
  {"setTargetWatts", "startSession", "resumeSession", "pauseSession", "stopSession"}

\* What a start-or-resume or stop-or-pause write is to commit.
runState == << isRunning, isPaused, sessionTimer, timeouts, sessionTimerStartedAt,
               sessionTimerRemainingMs >>

\* The writes of opcode issued by the methods of C33 among the writes w.
WritesOf(w, opcode) ==
  {k \in DOMAIN w : w[k].op \in WritingMethods /\ w[k].buf[1] = opcode}

\* The write a method of C33 is suspended at is rejected in this turn.
WriteFails ==
  \E i \in TaskIds :
    /\ tasks[i].op \in WritingMethods
    /\ tasks[i].pc = "write_wait"
    /\ Commit(Reject(State, i))

\* C33: no write of setTargetWatts, startSession, resumeSession,
\* pauseSession or stopSession is inside a try block that ignores the error,
\* so a rejected write fails the call; the turn in which it is rejected
\* changes neither the stored target nor running, paused, the timer and the
\* remaining duration, and emits no target-watts event; and none of these was
\* changed ahead of the acknowledgement: the turn that issues a
\* set-target-power write leaves the stored target alone and emits no
\* target-watts event, the turn that issues a start-or-resume or
\* stop-or-pause write leaves running, paused, the timer and the remaining
\* duration alone.
C33_FailedWriteCommitsNothing ==
  /\ [](\A i \in TaskIds :
          tasks[i].op \in WritingMethods
          => \A k \in DOMAIN tasks[i].stack : tasks[i].stack[k] \notin CatchLabels)
  /\ [][/\ WriteFails
           => /\ \E k \in DOMAIN done' : ~done'[k].ok
              /\ currentTargetWatts' = currentTargetWatts
              /\ TargetReports(events') = {}
              /\ runState' = runState
        /\ WritesOf(wrote', FTMS_SET_TARGET_POWER) # {}
           => /\ currentTargetWatts' = currentTargetWatts
              /\ TargetReports(events') = {}
        /\ (WritesOf(wrote', FTMS_START_RESUME) # {}
              \/ WritesOf(wrote', FTMS_STOP_PAUSE) # {})
           => runState' = runState]_vars

\* The stop-or-pause write of pauseSession on a running session with its
\* timer armed has just failed: the call has failed and the session still
\* runs with the timer armed.
C33_Witness ==
  /\ isRunning /\ ~isPaused /\ sessionTimer
  /\ peripheral # None /\ controlPointCharacteristic # None
  /\ \E k \in DOMAIN done :
       /\ done[k].op = "pauseSession" /\ ~done[k].ok
       /\ done[k].log = << <<FTMS_STOP_PAUSE>> >>

\* Some task among t is at label l.
At(t, l) == \E i \in TaskIds : t[i].pc = l

\* A task comes to label l in this turn.
Enters(l) == At(tasks', l) /\ ~At(tasks, l)

\* The request-control writes of bindPeripheral among the writes w.
BindRequests(w) ==
  {k \in DOMAIN w : w[k].buf = <<FTMS_REQUEST_CONTROL>> /\ w[k].at = "bindPeripheral_requested"}

\* The status events among ev with which bindPeripheral reports the bind.
ConnectedReports(ev) ==
  {k \in DOMAIN ev : /\ ev[k].type = "status"
                     /\ ev[k].message # <<>>
                     /\ ev[k].message[1] = "Trainer connected"}

\* The steps of a bind come in the order of bindPeripheral.
BindInOrder ==
  /\ Enters("bind_discover") => At(tasks, "bind_connect")
  /\ Enters("bind_subscribe_data") => At(tasks, "bind_discover")
  /\ Enters("bind_subscribe_control") => At(tasks, "bind_subscribe_data")
  /\ Enters("bind_subscribe_status")
       => At(tasks, "bind_subscribe_control") /\ statusCharacteristic # None
  /\ BindRequests(wrote') # {}
       => \/ At(tasks, "bind_subscribe_status")
          \/ At(tasks, "bind_subscribe_control") /\ statusCharacteristic = None
  /\ ConnectedReports(events') # {}
       => /\ \E i \in TaskIds : /\ tasks[i].pc = "write_wait"
                                /\ tasks[i].buf = <<FTMS_REQUEST_CONTROL>>
                                /\ Head(tasks[i].stack) = "bindPeripheral_requested"
          /\ isControlling'
          /\ \A k \in ConnectedReports(events') :
               events'[k].connected /\ events'[k].controlling

\* C34: a bind goes through radio connect, discovery, the subscriptions and
\* the request-control write in this order; the 'Trainer connected' status is
\* emitted, with controlling set, only in the turn in which that write is
\* acknowledged, and at that point the command and the data handle are set.
C34_BindSequence ==
  [][/\ BindInOrder
     /\ ConnectedReports(events') # {}
          => /\ controlPointCharacteristic' # None
             /\ indoorBikeCharacteristic' # None]_vars

\* C34 without the handles: the order of the steps, and the report only on
\* the acknowledgement of the request-control write.
C34_BindOrder == [][BindInOrder]_vars

\* C34 for a bind whose link is still up when the write is acknowledged.
C34_BindSequenceLinkUp ==
  [][(ConnectedReports(events') # {} /\ peripheral' # None
        /\ perState'[peripheral'] = "connected")
       => /\ controlPointCharacteristic' # None
          /\ indoorBikeCharacteristic' # None]_vars

\* What C35 says a notification leaves alone: the bindings, controlling,
\* running, paused, the target, the auto-stop timer and the registry.
notified == << peripheral, controlPointCharacteristic, indoorBikeCharacteristic,
               statusCharacteristic, connectedDeviceId, connectedDeviceLabel,
               heartRatePeripheral, heartRateCharacteristic, connectedHeartRateId,
               isControlling, isRunning, isPaused, currentTargetWatts,
               sessionTimer, timeouts, sessionTimerStartedAt, sessionTimerRemainingMs,
               discoveredPeripherals, discoveredDevices, discovering, tasks >>

\* The number the hexadecimal digits str stand for.
RECURSIVE parseHex(_)
parseHex(str) ==
  LET value(c) == CHOOSE d \in 0..15 : toString16(d) = <<c>>
  IN IF str = <<>> THEN 0
     ELSE 16 * parseHex(SubSeq(str, 1, Len(str) - 1)) + value(str[Len(str)])

\* This turn is the control point listener called with data.
ControlPointNotified(data) ==
  /\ Notifies(controlPointCharacteristic)
  /\ \A i \in TaskIds : tasks[i].pc # "bind_subscribe_data"
  /\ Commit(handleControlPointNotification(State, data))

\* C35: a turn that handles a notification of the indoor bike data, the
\* heart-rate measurement, the control point or the status characteristic
\* leaves the bindings, controlling, running, paused, the target, the
\* auto-stop timer and the registry as they were, and issues no write.  A
\* control point response (three bytes or more, the first 0x80) whose result
\* is not 0x01 emits one status event and nothing else; its message names
\* the opcode and the result of the response in hexadecimal and the event
\* reports running, paused and controlling as they are.  A response whose
\* result is 0x01 emits nothing.
C35_NotificationsKeepState ==
  [][/\ (IndoorBikeData \/ HeartRateData \/ ControlPointData \/ StatusData)
          => notified' = notified /\ wrote' = <<>> /\ done' = <<>>
     /\ \A data \in ControlPointBuffers :
          (ControlPointNotified(data) /\ Len(data) >= 3 /\ data[1] = 128)
            => IF data[3] = 1 THEN events' = <<>>
               ELSE /\ Len(events') = 1
                    /\ events'[1].type = "status"
                    /\ Len(events'[1].message) = 4
                    /\ parseHex(events'[1].message[2]) = data[2]
                    /\ parseHex(events'[1].message[4]) = data[3]
                    /\ events'[1].running = isRunning
                    /\ events'[1].paused = isPaused
                    /\ events'[1].controlling = isControlling]_vars

\* A failed response to opcode 0x11 with result 0x10 has just been handled
\* while the session runs with both devices bound.
C35_Witness ==
  /\ isRunning /\ isControlling /\ peripheral # None
  /\ heartRatePeripheral # None
  /\ Len(events) = 1
  /\ events[1].type = "status"
  /\ events[1].message = <<"Control point response for opcode 0x", <<"1", "1">>,
                           " returned status 0x", <<"1", "0">> >>

\* A paused session receives telemetry.
C35_PausedTelemetry ==
  /\ isPaused /\ Len(events) = 1 /\ events[1].type = "telemetry"

\* The identifiers with a device record.
Recorded == {id \in Peripherals : discoveredDevices[id] # <<>>}

\* C38: after every operation the identifiers with a stored peripheral
\* handle are the identifiers with a device record, so that connect binds
\* directly only a device of the current registry.
C38_HandlesMatchRecords == discoveredPeripherals = Recorded

\* C38, the first form: a connect called with an identifier that has no
\* device record does not start a bind in the turn of the call.
C38_NoDirectBindOfPruned ==
  [][\A i \in TaskIds :
       (Invoked("connect") /\ tasks'[i].op = "connect"
          /\ tasks'[i].want # None /\ discoveredDevices[tasks'[i].want] = <<>>)
         => tasks'[i].pc \notin {"stopDiscovery_wait", "bind_connect"}]_vars

\* One half of C38: every identifier with a device record has a stored
\* peripheral handle.
C38_RecordsHaveHandles == Recorded \subseteq discoveredPeripherals

\* The two bindings and the state of the session.
bindings == << peripheral, controlPointCharacteristic, indoorBikeCharacteristic,
               statusCharacteristic, connectedDeviceId, connectedDeviceLabel,
               isControlling, heartRatePeripheral, heartRateCharacteristic,
               connectedHeartRateId >>

\* C40: the turn in which disconnect is called with an identifier that is
\* neither the identifier of the bound control device nor that of the bound
\* heart-rate device changes neither binding nor the session, issues no
\* write and leaves no task behind that would.
C40_UnboundDisconnectIsNoOp ==
  [][CallDisconnectUnbound
       => /\ bindings' = bindings
          /\ session' = session
          /\ wrote' = <<>>
          /\ \A i \in TaskIds : tasks'[i].op = "disconnect" => tasks[i].op = "disconnect"]_vars

\* C40 while no control device is bound: the call returns at once.
C40_NothingBoundIsNoOp ==
  [][(CallDisconnectUnbound /\ peripheral = None /\ heartRatePeripheral = None)
       => /\ bindings' = bindings
          /\ session' = session
          /\ wrote' = <<>>
          /\ \A i \in TaskIds : tasks'[i].op = "disconnect" => tasks[i].op = "disconnect"]_vars

\* C40 for a call made while the control device is bound and controlled.
C40_UnboundDisconnectWhileControlling ==
  [][(CallDisconnectUnbound /\ isControlling /\ peripheral # None
        /\ perState[peripheral] = "connected")
       => /\ bindings' = bindings
          /\ session' = session
          /\ wrote' = <<>>]_vars

====
